---- MODULE Spec2Model ----
(***************************************************************************)
(* A model of the bucketlist record-matching library: TopN, Matcher,       *)
(* Bucket (bucketlist/bucketlist.py) and the storage hierarchy             *)
(* (bucketlist/storage.py).                                                *)
(*                                                                         *)
(* Python dicts keep insertion order, and the code depends on it           *)
(* (TopN._get_lowest, CachedStorage._check_cache_limit), so a dict is a    *)
(* sequence of entries with pairwise distinct keys.                        *)
(***************************************************************************)
EXTENDS Integers, Sequences, FiniteSets, TLC

VARIABLES
    n,            \* TopN.n, the capacity
    group_by,     \* TopN.group_by: "uuid" (the default lambda) or "first" (lambda x: x[0])
    data,         \* TopN._data: sequence of [key, value, score]
    hist,         \* history: the <<value, score>> pairs put since the last clear
    matcher,      \* the Matcher: [must, either, sequential, should, stone_geary]
    storage,      \* Bucket._storage, an InMemoryStorage: its _data, key -> list
    inserted,     \* history: the records whose Bucket.put returned
    heap,         \* the objects alive: object id -> the _data of an InMemoryStorage
                  \*   or the items of a list
    buckets,      \* the Bucket objects made: sequence of [matcher, storage, n],
                  \*   storage being the id of the object in Bucket._storage
    matchers,     \* the Matcher objects made: sequence of [must, either, sequential,
                  \*   should], each the id of the list object the attribute refers to
    disk,         \* the files under JSONLStorage's root_dir: path -> lines
    cache,        \* CachedStorage.cache: sequence of [key, value], oldest first
    cache_dirty,  \* CachedStorage.cache_dirty
    cache_size,   \* CachedStorage.cache_size
    expect,       \* history: per key, what was on disk at first followed by the values put
    session,      \* history: the calls the current CachedStorage got ("new", "puts",
                  \*   "closed", "fresh": gets only, after puts and a close; else "mixed")
    op,           \* the last call made, with its arguments
    ret,          \* what the last call returned, or the exception it raised
    trace         \* the callables and storage methods the last call invoked, in order

topn_vars == <<n, group_by, data, hist>>
bucket_vars == <<matcher, storage, inserted>>
cache_vars == <<disk, cache, cache_dirty, cache_size, expect, session>>
object_vars == <<heap, buckets, matchers>>
vars == <<topn_vars, bucket_vars, object_vars, cache_vars, op, ret, trace>>

----------------------------------------------------------------------------
(* Bounds *)

MaxN == 2          \* largest TopN capacity explored
MaxPuts == 3       \* most TopN.put calls between two clears
MaxRecords == 2    \* most records a Bucket is given
MaxCacheSize == 1  \* largest CachedStorage.cache_size explored
MaxCachePuts == 3  \* most CachedStorage.put calls
MaxWrites == 3     \* most put and put_all calls on a JSONLStorage
MaxBuckets == 2    \* most Bucket objects constructed
MaxMatchers == 2   \* most Matcher objects constructed
MaxItems == 2      \* most items appended to one rule list

(* The candidate values of the TopN tests: strings, read through their     *)
(* first character by group_by = lambda x: x[0]. A value is                *)
(* <<first character, rest>>.                                              *)
TopNValues == { <<"a", "pple">>, <<"a", "lpha">>, <<"b", "anana">>, <<"b", "eta">> }
TopNScores == {1, 2, 3}

----------------------------------------------------------------------------
(* What a call gives back: a returned value (a sequence; empty for None)    *)
(* or the exception it raised.                                             *)

Returned(v) == [exc |-> "none", value |-> v]
Raised(e) == [exc |-> e, value |-> << >>]

----------------------------------------------------------------------------
(* Ordered dict helpers *)

Keys(D) == { D[i].key : i \in 1..Len(D) }

IndexOf(D, key) == CHOOSE i \in 1..Len(D) : D[i].key = key

\* D[key] = entry : replace in place when the key exists, append otherwise
SetItem(D, key, value, score) ==
    LET e == [key |-> key, value |-> value, score |-> score] IN
    IF key \in Keys(D)
    THEN [D EXCEPT ![IndexOf(D, key)] = e]
    ELSE Append(D, e)

\* del D[key]
DelItem(D, key) ==
    LET i == IndexOf(D, key) IN
    SubSeq(D, 1, i - 1) \o SubSeq(D, i + 1, Len(D))

----------------------------------------------------------------------------
(* TopN *)

\* self._data.values(): the retained (value, score) tuples
TopN_values(D) == { <<D[i].value, D[i].score>> : i \in 1..Len(D) }

TopN_add(D, key, value, score) ==
    IF <<value, score>> \notin TopN_values(D)
    THEN SetItem(D, key, value, score)
    ELSE D

\* min over a non-empty dict; the caller handles the empty one (ValueError)
TopN_lowest(D) ==
    CHOOSE s \in { D[i].score : i \in 1..Len(D) } :
        \A i \in 1..Len(D) : s <= D[i].score

\* an eviction that takes the oldest entry, whatever its score
TopN_get_lowest_oldest(D) == D[1].key

\* the first key, in dict order, holding the lowest score
TopN_get_lowest(D) ==
    LET i == CHOOSE j \in 1..Len(D) :
                 /\ D[j].score = TopN_lowest(D)
                 /\ \A k \in 1..(j - 1) : D[k].score # TopN_lowest(D)
    IN D[i].key

\* uuid.uuid4().int: a key no retained entry has
uuid4(D) == CHOOSE k \in 1..(Len(D) + 1) : k \notin Keys(D)

\* the first character of the names used as record values
FirstChar(name) ==
    CASE name = "alpha" -> "a"
      [] name = "aleph" -> "a"
      [] name = "apple" -> "a"
      [] name = "beta"  -> "b"
      [] name = "delta" -> "d"

\* the group_by functions: the default lambda x: uuid.uuid4().int, the
\* lambda x: x[0] of the TopN tests (on <<first character, rest>>) and the
\* lambda x: x['name'][0] of the Bucket tests (on records)
TopN_group_by(mode, D, value) ==
    CASE mode = "uuid"       -> uuid4(D)
      [] mode = "first"      -> value[1]
      [] mode = "name_first" -> FirstChar(value.name)

\* a put that, at capacity, adds the better candidate without evicting
TopN_put_no_eviction(D, cap, key, value, score) ==
    IF key \notin Keys(D)
    THEN IF Len(D) < cap
         THEN [data |-> TopN_add(D, key, value, score), exc |-> "none"]
         ELSE IF Len(D) = 0
         THEN [data |-> D, exc |-> "ValueError"]
         ELSE IF score > TopN_lowest(D)
         THEN [data |-> TopN_add(D, key, value, score), exc |-> "none"]
         ELSE [data |-> D, exc |-> "none"]
    ELSE IF score > D[IndexOf(D, key)].score
         THEN [data |-> SetItem(D, key, value, score), exc |-> "none"]
         ELSE [data |-> D, exc |-> "none"]

\* a put that replaces its group's entry on an equal score too
TopN_put_on_equal(D, cap, key, value, score) ==
    IF key \notin Keys(D)
    THEN IF Len(D) < cap
         THEN [data |-> TopN_add(D, key, value, score), exc |-> "none"]
         ELSE IF Len(D) = 0
         THEN [data |-> D, exc |-> "ValueError"]
         ELSE IF score > TopN_lowest(D)
         THEN [data |-> TopN_add(DelItem(D, TopN_get_lowest(D)), key, value, score),
               exc |-> "none"]
         ELSE [data |-> D, exc |-> "none"]
    ELSE IF score >= D[IndexOf(D, key)].score
         THEN [data |-> SetItem(D, key, value, score), exc |-> "none"]
         ELSE [data |-> D, exc |-> "none"]

\* TopN.put on dict D with capacity cap; gives the new dict and the exception
TopN_put(D, cap, key, value, score) ==
    IF key \notin Keys(D)
    THEN IF Len(D) < cap
         THEN [data |-> TopN_add(D, key, value, score), exc |-> "none"]
         ELSE IF Len(D) = 0
         THEN [data |-> D, exc |-> "ValueError"]     \* min() of an empty sequence
         ELSE IF score > TopN_lowest(D)
         THEN [data |-> TopN_add(DelItem(D, TopN_get_lowest(D)), key, value, score),
               exc |-> "none"]
         ELSE [data |-> D, exc |-> "none"]
    ELSE IF score > D[IndexOf(D, key)].score
         THEN [data |-> SetItem(D, key, value, score), exc |-> "none"]
         ELSE [data |-> D, exc |-> "none"]

TopN_get(D) == [i \in 1..Len(D) |-> <<D[i].value, D[i].score>>]

TopN_clear == << >>

----------------------------------------------------------------------------
(* Records and scores                                                      *)
(*                                                                         *)
(* A record is a function from some of the fields to strings; record[key]  *)
(* on a field it lacks raises KeyError.                                    *)
(*                                                                         *)
(* Similarities and stone_geary are multiples of 1/4, weights are whole    *)
(* numbers and the weights of a Matcher sum to at most 2, so every score   *)
(* is a multiple of 1/256 and the float arithmetic of the code is exact on *)
(* them. A score is kept as its numerator over Den.                        *)

SimDen == 2 * 2
TermDen == SimDen * SimDen
Den == TermDen * TermDen
One == Den

RECURSIVE Pow(_, _)
Pow(x, w) == IF w = 0 THEN 1 ELSE x * Pow(x, w - 1)

\* score > 0.9999
IsPerfect(score) == score * 10000 > 9999 * Den

\* a lookup that reads an absent field as the empty string
GetItem_default(record, key) ==
    IF key \in DOMAIN record THEN << record[key] >> ELSE << "" >>

\* record[key]: <<value>>, or << >> for KeyError
GetItem(record, key) ==
    IF key \in DOMAIN record THEN << record[key] >> ELSE << >>

\* the similarity functions of the tests, as numerators over SimDen
Similarity(f, x, y) ==
    CASE f = "eq_or_quarter" -> IF x = y THEN SimDen ELSE 1   \* 1.0 if x==y else 0.25
      [] f = "eq_or_zero"    -> IF x = y THEN SimDen ELSE 0   \* 1.0 if x==y else 0.0
      [] f = "one"           -> SimDen                        \* lambda x, y: 1.0

\* the gate predicates of the tests
Gate(f, x, y) ==
    CASE f = "true"  -> TRUE
      [] f = "false" -> FALSE
      [] f = "equal" -> x = y

\* Matcher.__init__: a should item without a weight gets weight 1.0
Matcher(must, either, sequential, should, stone_geary) ==
    [must |-> must, either |-> either, sequential |-> sequential,
     should |-> [i \in 1..Len(should) |->
                    [key |-> should[i][1], similarity |-> should[i][2],
                     weight |-> IF Len(should[i]) < 3 THEN 1 ELSE should[i][3]]],
     stone_geary |-> stone_geary]

\* all(record1[key] == record2[key] for key in must), read lazily from key i:
\* "true", "false", or "KeyError" when a key read before the verdict is absent
RECURSIVE MustAll(_, _, _, _)
MustAll(must, record1, record2, i) ==
    IF i > Len(must) THEN "true"
    ELSE LET x == GetItem(record1, must[i])
             y == GetItem(record2, must[i])
         IN IF x = << >> \/ y = << >> THEN "KeyError"
            ELSE IF x[1] # y[1] THEN "false"
            ELSE MustAll(must, record1, record2, i + 1)

\* a check of the either fields that wants every one of them equal
RECURSIVE EitherAny_all(_, _, _, _)
EitherAny_all(either, record1, record2, i) ==
    IF i > Len(either) THEN "true"
    ELSE LET x == GetItem(record1, either[i])
             y == GetItem(record2, either[i])
         IN IF x = << >> \/ y = << >> THEN "KeyError"
            ELSE IF x[1] # y[1] THEN "false"
            ELSE EitherAny_all(either, record1, record2, i + 1)

\* any(record1[key] == record2[key] for key in either), read lazily from key i
RECURSIVE EitherAny(_, _, _, _)
EitherAny(either, record1, record2, i) ==
    IF i > Len(either) THEN "false"
    ELSE LET x == GetItem(record1, either[i])
             y == GetItem(record2, either[i])
         IN IF x = << >> \/ y = << >> THEN "KeyError"
            ELSE IF x[1] = y[1] THEN "true"
            ELSE EitherAny(either, record1, record2, i + 1)

\* a loop over self.sequential that calls every gate before it gives its verdict
RECURSIVE SequentialGates_all(_, _, _, _, _)
SequentialGates_all(sequential, record1, record2, i, calls) ==
    IF i > Len(sequential) THEN [verdict |-> "true", calls |-> calls]
    ELSE LET key == sequential[i][1]
             x == GetItem(record1, key)
             y == GetItem(record2, key)
         IN IF x = << >> \/ y = << >>
            THEN [verdict |-> "KeyError", calls |-> calls]
            ELSE LET rest == SequentialGates_all(sequential, record1, record2, i + 1,
                                                 Append(calls, <<"sequential", i>>))
                 IN IF Gate(sequential[i][2], x[1], y[1]) \/ rest.verdict = "KeyError"
                    THEN rest
                    ELSE [verdict |-> "false", calls |-> rest.calls]

\* the loop over self.sequential from gate i; calls: the callables invoked so far
RECURSIVE SequentialGates(_, _, _, _, _)
SequentialGates(sequential, record1, record2, i, calls) ==
    IF i > Len(sequential) THEN [verdict |-> "true", calls |-> calls]
    ELSE LET key == sequential[i][1]
             x == GetItem(record1, key)
             y == GetItem(record2, key)
         IN IF x = << >> \/ y = << >>
            THEN [verdict |-> "KeyError", calls |-> calls]
            ELSE IF ~Gate(sequential[i][2], x[1], y[1])
            THEN [verdict |-> "false", calls |-> Append(calls, <<"sequential", i>>)]
            ELSE SequentialGates(sequential, record1, record2, i + 1,
                                 Append(calls, <<"sequential", i>>))

\* a factor that leaves the weight out: stone_geary + (1 - stone_geary) * sim
ShouldScore_unweighted(score, stone_geary, sim, weight) ==
    (score * (SimDen * stone_geary + (SimDen - stone_geary) * sim)) \div TermDen

\* one factor of the product: (stone_geary + (1 - stone_geary) * sim) ** weight,
\* applied to the running score
ShouldScore(score, stone_geary, sim, weight) ==
    (score * Pow(SimDen * stone_geary + (SimDen - stone_geary) * sim, weight))
        \div Pow(TermDen, weight)

\* the loop over self.should from rule i
RECURSIVE ShouldLoop(_, _, _, _, _, _, _)
ShouldLoop(m, record1, record2, i, score, comp, calls) ==
    IF i > Len(m.should)
    THEN [exc |-> "none", score |-> score, comp |-> comp, calls |-> calls]
    ELSE LET rule == m.should[i]
             x == GetItem(record1, rule.key)
             y == GetItem(record2, rule.key)
         IN IF x = << >> \/ y = << >>
            THEN [exc |-> "KeyError", score |-> 0, comp |-> << >>, calls |-> calls]
            ELSE LET sim == Similarity(rule.similarity, x[1], y[1]) IN
                 ShouldLoop(m, record1, record2, i + 1,
                            ShouldScore(score, m.stone_geary, sim, rule.weight),
                            Append(comp, <<rule.key, i - 1, sim>>),
                            Append(calls, <<"should", i>>))

\* Matcher.components(record1, record2): the score, the components (as
\* <<field, position, similarity>> in rule order) and the callables invoked;
\* Zero(calls) is the early return (0.0, {})
Zero(calls) == [exc |-> "none", score |-> 0, comp |-> << >>, calls |-> calls]
KeyError(calls) == [exc |-> "KeyError", score |-> 0, comp |-> << >>, calls |-> calls]

components(m, record1, record2) ==
    LET must == IF m.must # << >> THEN MustAll(m.must, record1, record2, 1) ELSE "true"
        either == IF m.either # << >> THEN EitherAny(m.either, record1, record2, 1)
                  ELSE "true"
        gates == SequentialGates(m.sequential, record1, record2, 1, << >>)
    IN IF must = "KeyError" THEN KeyError(<< >>)
       ELSE IF must = "false" THEN Zero(<< >>)
       ELSE IF either = "KeyError" THEN KeyError(<< >>)
       ELSE IF either = "false" THEN Zero(<< >>)
       ELSE IF gates.verdict = "KeyError" THEN KeyError(gates.calls)
       ELSE IF gates.verdict = "false" THEN Zero(gates.calls)
       ELSE ShouldLoop(m, record1, record2, 1, One, << >>, gates.calls)

----------------------------------------------------------------------------
(* InMemoryStorage: _data is a defaultdict(list), here a function from the *)
(* keys it holds to their lists.                                           *)

InMemoryStorage_init == << >>

InMemoryStorage_contains(S, key) == key \in DOMAIN S

InMemoryStorage_len(S) == Cardinality(DOMAIN S)

\* self._data.get(key): <<list>>, or << >> for None (get adds no key)
InMemoryStorage_get(S, key) ==
    IF key \in DOMAIN S THEN << S[key] >> ELSE << >>

\* a put that skips a value the list already holds
InMemoryStorage_put_once(S, key, value) ==
    [k \in DOMAIN S \cup {key} |->
        IF k = key
        THEN IF key \in DOMAIN S
             THEN IF \E i \in 1..Len(S[key]) : S[key][i] = value
                  THEN S[key] ELSE Append(S[key], value)
             ELSE << value >>
        ELSE S[k]]

\* self._data[key].append(value)
InMemoryStorage_put(S, key, value) ==
    [k \in DOMAIN S \cup {key} |->
        IF k = key
        THEN Append(IF key \in DOMAIN S THEN S[key] ELSE << >>, value)
        ELSE S[k]]

----------------------------------------------------------------------------
(* Bucket *)

\* the default analyzer, lambda x: x
analyzer(record) == record

None == << "None" >>

\* the indexer Bucket.__init__ derives from the matcher: the list of blocking
\* keys of x, or KeyError when x lacks a field the list comprehension reads
indexer(m, x) ==
    IF m.must # << >>
    THEN IF \E i \in 1..Len(m.must) : m.must[i] \notin DOMAIN x
         THEN [exc |-> "KeyError", keys |-> << >>]
         ELSE [exc |-> "none",
               keys |-> << [i \in 1..Len(m.must) |-> <<m.must[i], x[m.must[i]]>>] >>]
    ELSE IF m.either # << >>
    THEN IF \E i \in 1..Len(m.either) : m.either[i] \notin DOMAIN x
         THEN [exc |-> "KeyError", keys |-> << >>]
         ELSE [exc |-> "none",
               keys |-> [i \in 1..Len(m.either) |-> <<m.either[i], x[m.either[i]]>>]]
    ELSE [exc |-> "none", keys |-> << None >>]

\* an inner loop that puts every scored candidate, whatever its score
RECURSIVE find_items_any_score(_, _, _, _, _, _, _, _)
find_items_any_score(m, cap, mode, index, items, j, tokenized, st) ==
    IF j > Len(items) THEN st
    ELSE LET c == components(m, items[j], tokenized)
             st1 == [st EXCEPT !.trace = Append(@, <<"components", index, j>>)]
         IN IF c.exc # "none" THEN [st1 EXCEPT !.exc = c.exc]
            ELSE LET p == TopN_put(st1.data, cap,
                                   TopN_group_by(mode, st1.data, items[j]),
                                   items[j], c.score)
                     st2 == [st1 EXCEPT !.data = p.data,
                                        !.best = IF c.score > @ THEN c.score ELSE @]
                 IN IF p.exc # "none" THEN [st1 EXCEPT !.exc = p.exc]
                    ELSE IF IsPerfect(st2.best) THEN st2
                    ELSE find_items_any_score(m, cap, mode, index, items, j + 1,
                                              tokenized, st2)

\* the inner loop of Bucket.find over the items stored under index, from item j.
\* st = [data, best, exc, trace]: TopN._data, best_score, the exception raised,
\* the calls made
RECURSIVE find_items(_, _, _, _, _, _, _, _)
find_items(m, cap, mode, index, items, j, tokenized, st) ==
    IF j > Len(items) THEN st
    ELSE LET c == components(m, items[j], tokenized)
             st1 == [st EXCEPT !.trace = Append(@, <<"components", index, j>>)]
         IN IF c.exc # "none" THEN [st1 EXCEPT !.exc = c.exc]
            ELSE IF c.score = 0
            THEN IF IsPerfect(st1.best) THEN st1
                 ELSE find_items(m, cap, mode, index, items, j + 1, tokenized, st1)
            ELSE LET p == TopN_put(st1.data, cap,
                                   TopN_group_by(mode, st1.data, items[j]),
                                   items[j], c.score)
                     st2 == [st1 EXCEPT !.data = p.data,
                                        !.best = IF c.score > @ THEN c.score ELSE @]
                 IN IF p.exc # "none" THEN [st1 EXCEPT !.exc = p.exc]
                    ELSE IF IsPerfect(st2.best) THEN st2
                    ELSE find_items(m, cap, mode, index, items, j + 1, tokenized, st2)

\* the outer loop of Bucket.find over the blocking keys, from key i
RECURSIVE find_keys(_, _, _, _, _, _, _, _)
find_keys(m, cap, mode, S, indexes, i, tokenized, st) ==
    IF i > Len(indexes) THEN st
    ELSE LET index == indexes[i]
             st1 == [st EXCEPT !.trace = Append(@, <<"contains", index>>)]
         IN IF ~InMemoryStorage_contains(S, index)
            THEN st1                                           \* break
            ELSE LET items == InMemoryStorage_get(S, index)[1]
                     st2 == find_items(m, cap, mode, index, items, 1, tokenized,
                                [st1 EXCEPT !.trace = Append(@, <<"get", index>>)])
                 IN IF st2.exc # "none" \/ IsPerfect(st2.best) THEN st2
                    ELSE find_keys(m, cap, mode, S, indexes, i + 1, tokenized, st2)

\* a find that leaves in the TopN what the call before retained
find_without_clear(m, cap, mode, S, D, record) ==
    LET tokenized == analyzer(record)
        indexes == indexer(m, tokenized)
    IN IF indexes.exc # "none"
       THEN [data |-> D, best |-> 0, exc |-> indexes.exc, trace |-> << >>]
       ELSE find_keys(m, cap, mode, S, indexes.keys, 1, tokenized,
                      [data |-> D, best |-> 0, exc |-> "none", trace |-> << >>])

\* Bucket.find(record) on a bucket whose TopN holds D: the TopN afterwards,
\* the exception raised and the calls made
find(m, cap, mode, S, D, record) ==
    LET tokenized == analyzer(record)
        indexes == indexer(m, tokenized)
    IN IF indexes.exc # "none"
       THEN [data |-> D, best |-> 0, exc |-> indexes.exc, trace |-> << >>]
       ELSE find_keys(m, cap, mode, S, indexes.keys, 1, tokenized,
                      [data |-> TopN_clear, best |-> 0, exc |-> "none", trace |-> << >>])

\* the loop of Bucket.put over the blocking keys, from key i
RECURSIVE put_keys(_, _, _, _)
put_keys(S, indexes, i, tokenized) ==
    IF i > Len(indexes) THEN S
    ELSE put_keys(InMemoryStorage_put(S, indexes[i], tokenized), indexes, i + 1, tokenized)

\* a put whose either keys are made one at a time while they are stored: the
\* record is stored under the keys made before the missing field is read
put_lazy_indexer(m, S, record) ==
    LET tokenized == analyzer(record)
        indexes == indexer(m, tokenized)
        present == { i \in 1..Len(m.either) :
                       \A k \in 1..i : m.either[k] \in DOMAIN tokenized }
        made == [i \in 1..Cardinality(present) |->
                    <<m.either[i], tokenized[m.either[i]]>>]
    IN IF indexes.exc = "none"
       THEN [storage |-> put_keys(S, indexes.keys, 1, tokenized), exc |-> "none"]
       ELSE IF m.must # << >> THEN [storage |-> S, exc |-> indexes.exc]
       ELSE [storage |-> put_keys(S, made, 1, tokenized), exc |-> indexes.exc]

\* Bucket.put(record): the storage afterwards and the exception raised
put(m, S, record) ==
    LET tokenized == analyzer(record)
        indexes == indexer(m, tokenized)
    IN IF indexes.exc # "none"
       THEN [storage |-> S, exc |-> indexes.exc]
       ELSE [storage |-> put_keys(S, indexes.keys, 1, tokenized), exc |-> "none"]

\* a fresh object id on the heap H
NewObject(H) == CHOOSE id \in 1..(Cardinality(DOMAIN H) + 1) : id \notin DOMAIN H

\* a constructor whose default storage is one object, made once and given to
\* every Bucket constructed without a storage
Bucket_init_default_object(H, m, storage_arg, cap) ==
    IF storage_arg = None
    THEN [heap |-> IF 1 \in DOMAIN H THEN H ELSE (1 :> InMemoryStorage_init),
          bucket |-> [matcher |-> m, storage |-> 1, n |-> cap]]
    ELSE [heap |-> H, bucket |-> [matcher |-> m, storage |-> storage_arg, n |-> cap]]

\* Bucket.__init__(matcher, n, storage): with storage=None a new
\* InMemoryStorage is made for this Bucket; the heap afterwards and the Bucket
Bucket_init(H, m, storage_arg, cap) ==
    IF storage_arg = None
    THEN LET id == NewObject(H) IN
         [heap |-> [o \in DOMAIN H \cup {id} |->
                       IF o = id THEN InMemoryStorage_init ELSE H[o]],
          bucket |-> [matcher |-> m, storage |-> id, n |-> cap]]
    ELSE [heap |-> H, bucket |-> [matcher |-> m, storage |-> storage_arg, n |-> cap]]

\* the list objects that are the default values of must, either, sequential
\* and should: each [] in the def line is evaluated once, when the function is
\* defined
DefaultArgs == [must |-> 1, either |-> 2, sequential |-> 3, should |-> 4]
MatcherAttrs == {"must", "either", "sequential", "should"}

\* callable(f), for the second element of a sequential item
callable(f) == f \in {"true", "false", "equal"}

\* Matcher(): __init__ with every argument left to its default. must, either
\* and sequential are bound to the default list objects themselves; should is
\* a new list filled from the default one; a sequential item whose second
\* element is not callable raises TypeError
Matcher_init(H) ==
    LET sequential == H[DefaultArgs.sequential]
        should == H[DefaultArgs.should]
        id == NewObject(H)
    IN IF \E i \in 1..Len(sequential) : ~callable(sequential[i][2])
       THEN [heap |-> H, exc |-> "TypeError", matcher |-> << >>]
       ELSE [heap |-> [o \in DOMAIN H \cup {id} |->
                          IF o = id
                          THEN Matcher(<< >>, << >>, << >>, should, 1).should
                          ELSE H[o]],
             exc |-> "none",
             matcher |-> [must |-> DefaultArgs.must, either |-> DefaultArgs.either,
                          sequential |-> DefaultArgs.sequential, should |-> id]]

\* list.append(item) on the list object id
list_append(H, id, item) == [H EXCEPT ![id] = Append(@, item)]

----------------------------------------------------------------------------
(* DiskDict and JSONLStorage                                               *)
(*                                                                         *)
(* The directory tree under root_dir is a function from file paths to the  *)
(* lines of the file. A key is a Python object, kept as its type and its   *)
(* literal; the stored values are the dicts of the storage tests.          *)

Str(s) == [type |-> "str", value |-> s]      \* the string s
Integer(digits) == [type |-> "int", value |-> digits]   \* the int written digits

\* the keys given to the storages: two strings and an integer
CacheKeys == { Str("key1"), Str("1"), Integer("1") }
\* the values {"x": 1}, {"x": 2}, ... of the storage tests: the i-th put
\* stores {"x": i}; {"x": 0} is what a file holds before the first call
PutValue(i) == [x |-> i]
OldValue == PutValue(0)
OldKeys == { {}, {Str("key1")} }              \* the keys that may have a file at first

\* str(key): a string is itself, an integer is its decimal digits
str(key) ==
    CASE key.type = "str" -> key.value
      [] key.type = "int" -> key.value

\* hashlib.sha256(s.encode()).hexdigest(), cut to its first eight digits, as
\* <<digits 1-2, digits 3-4, digits 5-8>>
sha256_hexdigest(s) ==
    CASE s = "key1" -> << "81", "74", "0996" >>
      [] s = "key2" -> << "b1", "02", "5376" >>
      [] s = "1"    -> << "6b", "86", "b273" >>

DiskDict_get_hash_and_dirs(key) ==
    LET hex_dig == sha256_hexdigest(str(key)) IN << hex_dig, hex_dig[1], hex_dig[2] >>

\* root_dir/first_folder/second_folder/hex_dig.jsonl
DiskDict_get_file_path(key) ==
    LET h == DiskDict_get_hash_and_dirs(key) IN << h[2], h[3], h[1] >>

\* json.dumps(value) + '\n' and json.loads(line.strip()); a line that is not
\* JSON parses to << >> (JSONDecodeError)
json_dumps(value) == [json |-> value]
json_loads(line) == IF "json" \in DOMAIN line THEN << line.json >> ELSE << >>

\* open(filename, 'wt') and one line per value
DiskDict_put(F, key, value_list) ==
    LET filename == DiskDict_get_file_path(key)
        lines == [i \in 1..Len(value_list) |-> json_dumps(value_list[i])]
    IN [f \in DOMAIN F \cup {filename} |-> IF f = filename THEN lines ELSE F[f]]

\* the list of parsed lines as <<list>>, << >> for None when there is no file
DiskDict_get(F, key) ==
    LET filename == DiskDict_get_file_path(key) IN
    IF filename \notin DOMAIN F
    THEN [exc |-> "none", value |-> << >>]
    ELSE IF \E i \in 1..Len(F[filename]) : json_loads(F[filename][i]) = << >>
    THEN [exc |-> "JSONDecodeError", value |-> << >>]
    ELSE [exc |-> "none",
          value |-> << [i \in 1..Len(F[filename]) |-> json_loads(F[filename][i])[1]] >>]

DiskDict_contains(F, key) == DiskDict_get_file_path(key) \in DOMAIN F

JSONLStorage_contains(F, key) == DiskDict_contains(F, key)

\* the number of files under root_dir
JSONLStorage_len(F) == Cardinality(DOMAIN F)

JSONLStorage_get(F, key) == DiskDict_get(F, key)

\* value or []
OrEmpty(value) == IF value = << >> THEN << >> ELSE value[1]

\* JSONLStorage.put: the files afterwards and the exception raised
JSONLStorage_put(F, key, value) ==
    LET got == DiskDict_get(F, key) IN
    IF got.exc # "none" THEN [disk |-> F, exc |-> got.exc]
    ELSE [disk |-> DiskDict_put(F, key, Append(OrEmpty(got.value), value)),
          exc |-> "none"]

JSONLStorage_put_all(F, key, values) == DiskDict_put(F, key, values)

----------------------------------------------------------------------------
(* CachedStorage over an inner storage                                     *)
(*                                                                         *)
(* The wrapped storage self._storage is an object of one of the two        *)
(* concrete classes: its class and its state (the files of a JSONLStorage, *)
(* the _data of an InMemoryStorage). A cache entry is shared when its list *)
(* is the very list object the inner InMemoryStorage holds for the key, so *)
(* that an append to it is an append to the inner list as well.            *)

JSONLStorage(F) == [class |-> "JSONLStorage", state |-> F]
InMemoryStorage(S) == [class |-> "InMemoryStorage", state |-> S]

\* self._storage.get(key): [exc, value, shared]
Storage_get(store, key) ==
    IF store.class = "JSONLStorage"
    THEN LET got == JSONLStorage_get(store.state, key) IN
         [exc |-> got.exc, value |-> got.value, shared |-> FALSE]
    ELSE LET got == InMemoryStorage_get(store.state, key) IN
         [exc |-> "none", value |-> got, shared |-> got # << >>]

\* self._storage.__contains__(key)
Storage_contains(store, key) ==
    IF store.class = "JSONLStorage"
    THEN JSONLStorage_contains(store.state, key)
    ELSE InMemoryStorage_contains(store.state, key)

\* the attribute self._storage.put_all: only JSONLStorage defines put_all
Storage_has_put_all(store) == store.class = "JSONLStorage"

\* self._storage.put_all(key, values), on a storage that has it
Storage_put_all(store, key, values) ==
    JSONLStorage(JSONLStorage_put_all(store.state, key, values))

\* list.append(value) on the list object of a cache entry
Storage_append(store, entry, value) ==
    IF entry.shared
    THEN InMemoryStorage(InMemoryStorage_put(store.state, entry.key, value))
    ELSE store

CachedKeys(C) == { C[i].key : i \in 1..Len(C) }

CachedValue(C, key) == C[CHOOSE i \in 1..Len(C) : C[i].key = key].value

\* AbstractStorage.put, which super().put reaches
AbstractStorage_put == "NotImplementedError"

\* AbstractStorage.__len__, which len() of a CachedStorage reaches
AbstractStorage_len == "NotImplementedError"

\* CachedStorage._check_cache_limit: the cache and dirty set afterwards, the
\* exception raised and the calls made
CachedStorage_check_cache_limit(C, dirty, size) ==
    IF Len(C) > size
    THEN LET oldest_key == C[1].key IN
         IF oldest_key \in dirty
         THEN [cache |-> C, dirty |-> dirty, exc |-> AbstractStorage_put,
               trace |-> << <<"put", oldest_key>> >>]
         ELSE [cache |-> Tail(C), dirty |-> dirty \ {oldest_key}, exc |-> "none",
               trace |-> << <<"pop", oldest_key>> >>]
    ELSE [cache |-> C, dirty |-> dirty, exc |-> "none", trace |-> << >>]

\* a get that moves the key it serves from the cache to the newest position
CachedStorage_get_lru(store, C, dirty, size, key) ==
    IF key \in CachedKeys(C)
    THEN [cache |-> Append(SelectSeq(C, LAMBDA e : e.key # key),
                           C[CHOOSE i \in 1..Len(C) : C[i].key = key]),
          dirty |-> dirty, ret |-> Returned(<< CachedValue(C, key) >>),
          trace |-> << >>]
    ELSE LET got == Storage_get(store, key)
             lim == CachedStorage_check_cache_limit(C, dirty, size)
             tr == << <<"get", key>> >>
         IN IF got.exc # "none"
            THEN [cache |-> C, dirty |-> dirty, ret |-> Raised(got.exc), trace |-> tr]
            ELSE IF got.value = << >>
            THEN [cache |-> C, dirty |-> dirty, ret |-> Returned(<< >>), trace |-> tr]
            ELSE IF lim.exc # "none"
            THEN [cache |-> C, dirty |-> dirty, ret |-> Raised(lim.exc),
                  trace |-> tr \o lim.trace]
            ELSE [cache |-> Append(lim.cache, [key |-> key, value |-> got.value[1],
                                               shared |-> got.shared]),
                  dirty |-> lim.dirty, ret |-> Returned(got.value),
                  trace |-> tr \o lim.trace]

\* CachedStorage.get
CachedStorage_get(store, C, dirty, size, key) ==
    IF key \in CachedKeys(C)
    THEN [cache |-> C, dirty |-> dirty, ret |-> Returned(<< CachedValue(C, key) >>),
          trace |-> << >>]
    ELSE LET got == Storage_get(store, key)
             lim == CachedStorage_check_cache_limit(C, dirty, size)
             tr == << <<"get", key>> >>
         IN IF got.exc # "none"
            THEN [cache |-> C, dirty |-> dirty, ret |-> Raised(got.exc), trace |-> tr]
            ELSE IF got.value = << >>
            THEN [cache |-> C, dirty |-> dirty, ret |-> Returned(<< >>), trace |-> tr]
            ELSE IF lim.exc # "none"
            THEN [cache |-> C, dirty |-> dirty, ret |-> Raised(lim.exc),
                  trace |-> tr \o lim.trace]
            ELSE [cache |-> Append(lim.cache, [key |-> key, value |-> got.value[1],
                                               shared |-> got.shared]),
                  dirty |-> lim.dirty, ret |-> Returned(got.value),
                  trace |-> tr \o lim.trace]

\* CachedStorage.put: the inner storage changes when the list appended to is
\* the inner storage's own
CachedStorage_put(store, C, dirty, size, key, value) ==
    LET dirty1 == dirty \cup {key} IN
    IF key \in CachedKeys(C)
    THEN LET entry == C[CHOOSE i \in 1..Len(C) : C[i].key = key] IN
         [store |-> Storage_append(store, entry, value),
          cache |-> [i \in 1..Len(C) |->
                        IF C[i].key = key
                        THEN [C[i] EXCEPT !.value = Append(@, value)]
                        ELSE C[i]],
          dirty |-> dirty1, ret |-> Returned(<< >>), trace |-> << >>]
    ELSE LET got == Storage_get(store, key)
             entry == [key |-> key, value |-> Append(OrEmpty(got.value), value),
                       shared |-> got.shared]
             store1 == Storage_append(store, entry, value)
             lim == CachedStorage_check_cache_limit(C, dirty1, size)
             tr == << <<"get", key>> >>
         IN IF got.exc # "none"
            THEN [store |-> store, cache |-> C, dirty |-> dirty1,
                  ret |-> Raised(got.exc), trace |-> tr]
            ELSE IF lim.exc # "none"
            THEN [store |-> store1, cache |-> C, dirty |-> dirty1,
                  ret |-> Raised(lim.exc), trace |-> tr \o lim.trace]
            ELSE [store |-> store1, cache |-> Append(lim.cache, entry),
                  dirty |-> lim.dirty, ret |-> Returned(<< >>),
                  trace |-> tr \o lim.trace]

\* CachedStorage.__contains__
CachedStorage_contains(store, C, key) ==
    key \in CachedKeys(C) \/ Storage_contains(store, key)

\* the loop of CachedStorage.close over the dirty keys, taken in the order
\* the set yields them, from key i
RECURSIVE CachedStorage_flush(_, _, _, _, _)
CachedStorage_flush(store, C, order, i, tr) ==
    IF i > Len(order) THEN [store |-> store, exc |-> "none", trace |-> tr]
    ELSE IF ~Storage_has_put_all(store)
    THEN [store |-> store, exc |-> "AttributeError", trace |-> tr]
    ELSE IF order[i] \notin CachedKeys(C)
    THEN [store |-> store, exc |-> "KeyError", trace |-> tr]    \* self.cache[key]
    ELSE CachedStorage_flush(
             Storage_put_all(store, order[i], CachedValue(C, order[i])),
             C, order, i + 1, Append(tr, <<"put_all", order[i]>>))

\* CachedStorage.close: the inner storage and the dirty set afterwards
CachedStorage_close(store, C, dirty, order) ==
    LET flushed == CachedStorage_flush(store, C, order, 1, << >>) IN
    IF flushed.exc # "none"
    THEN [store |-> flushed.store, dirty |-> dirty, ret |-> Raised(flushed.exc),
          trace |-> flushed.trace]
    ELSE [store |-> flushed.store, dirty |-> {}, ret |-> Returned(<< >>),
          trace |-> Append(flushed.trace, <<"close">>)]

\* len(CachedStorage): the class defines no __len__
CachedStorage_len == Raised(AbstractStorage_len)

\* the orders in which iterating a set can yield its elements
Orders(S) ==
    { order \in [1..Cardinality(S) -> S] :
          \A i, j \in 1..Cardinality(S) : i # j => order[i] # order[j] }

----------------------------------------------------------------------------
(* The records and matchers of the tests *)

Rec(name, letter, second) == [name |-> name, letter |-> letter, second |-> second]

Records ==
    { Rec("alpha", "a", "l"), Rec("aleph", "a", "l"), Rec("beta", "b", "e"),
      Rec("delta", "d", "e"),
      [name |-> "apple", letter |-> "a"] }         \* a record without 'second'

NameRule == << <<"name", "eq_or_quarter">> >>

BucketMatchers ==
    { Matcher(<< >>, << >>, << <<"letter", "equal">> >>, NameRule, 1),
      Matcher(<<"letter">>, << >>, << >>, NameRule, 1),
      Matcher(<<"letter", "second">>, << >>, << >>, NameRule, 1),
      Matcher(<< >>, <<"letter", "second">>, << >>, NameRule, 1) }

Matchers ==
    BucketMatchers \cup
    { Matcher(<< >>, << >>, << >>, NameRule, 1),
      Matcher(<< >>, <<"letter", "second">>, << >>, << >>, 1),
      Matcher(<<"letter">>, << >>, << >>, << <<"name", "eq_or_zero">> >>, 1),
      Matcher(<< >>, << >>, << <<"letter", "false">> >>, << <<"second", "one">> >>, 1),
      Matcher(<< >>, << >>, << <<"letter", "true">> >>, << <<"second", "one">> >>, 1),
      Matcher(<< >>, << >>, << <<"letter", "equal">>, <<"second", "equal">> >>,
              << <<"name", "eq_or_quarter">> >>, 0),
      Matcher(<< >>, << >>, << >>,
              << <<"name", "eq_or_quarter", 1>>, <<"second", "eq_or_zero", 1>> >>, 1),
      Matcher(<< >>, << >>, << >>, << <<"name", "eq_or_quarter", 2>> >>, 1),
      Matcher(<<"letter">>, <<"second", "name">>, << <<"name", "equal">> >>,
              << <<"second", "one">> >>, 1),
      Matcher(<< >>, <<"letter", "second">>, << <<"name", "equal">> >>, << >>, 1) }

----------------------------------------------------------------------------
(* Specification of a Matcher scoring pairs of records *)

Idle == << >>

\* the storage classes are not in use
NoCache ==
    /\ disk = Idle /\ cache = Idle /\ cache_dirty = {} /\ cache_size = 0
    /\ expect = Idle /\ session = "new"

MatcherInit ==
    /\ heap = Idle /\ buckets = Idle /\ matchers = Idle
    /\ matcher \in Matchers
    /\ n = 0 /\ group_by = "uuid" /\ data = << >> /\ hist = << >>
    /\ storage = Idle /\ inserted = << >>
    /\ NoCache
    /\ op = [name |-> "init"]
    /\ ret = Returned(<< >>)
    /\ trace = << >>

Components(record1, record2) ==
    LET c == components(matcher, record1, record2) IN
    /\ ret' = IF c.exc = "none" THEN Returned(<<c.score, c.comp>>) ELSE Raised(c.exc)
    /\ trace' = c.calls
    /\ op' = [name |-> "components", record1 |-> record1, record2 |-> record2]
    /\ UNCHANGED <<object_vars, n, group_by, data, hist, matcher, storage, inserted, cache_vars>>

MatcherNext == \E record1, record2 \in Records : Components(record1, record2)

MatcherSpec == MatcherInit /\ [][MatcherNext]_vars

----------------------------------------------------------------------------
(* Specification of a Bucket over its own InMemoryStorage *)

BucketInit ==
    /\ heap = Idle /\ buckets = Idle /\ matchers = Idle
    /\ matcher \in BucketMatchers
    /\ n \in 0..MaxN
    /\ group_by \in {"uuid", "name_first"}
    /\ data = << >>
    /\ hist = << >>
    /\ storage = InMemoryStorage_init
    /\ inserted = << >>
    /\ NoCache
    /\ op = [name |-> "init"]
    /\ ret = Returned(<< >>)
    /\ trace = << >>

BucketPut(record) ==
    /\ Len(inserted) < MaxRecords
    /\ LET r == put(matcher, storage, record) IN
       /\ storage' = r.storage
       /\ ret' = IF r.exc = "none" THEN Returned(<< >>) ELSE Raised(r.exc)
       /\ inserted' = IF r.exc = "none" THEN Append(inserted, record) ELSE inserted
    /\ op' = [name |-> "put", record |-> record]
    /\ trace' = << >>
    /\ UNCHANGED <<object_vars, n, group_by, data, hist, matcher, cache_vars>>

\* op.held: the number of entries the TopN held when the call began
BucketFind(record) ==
    /\ LET r == find(matcher, n, group_by, storage, data, record) IN
       /\ data' = r.data
       /\ ret' = IF r.exc = "none" THEN Returned(TopN_get(r.data)) ELSE Raised(r.exc)
       /\ trace' = r.trace
    /\ op' = [name |-> "find", record |-> record, held |-> Len(data)]
    /\ UNCHANGED <<object_vars, n, group_by, hist, matcher, storage, inserted, cache_vars>>

BucketNext ==
    \/ \E record \in Records : BucketPut(record)
    \/ \E record \in Records : BucketFind(record)

BucketSpec == BucketInit /\ [][BucketNext]_vars

----------------------------------------------------------------------------
(* Specification of several Buckets made without an explicit storage; here *)
(* inserted lists <<bucket, record>> for every Bucket.put that returned.   *)

BucketsInit ==
    /\ matcher \in BucketMatchers
    /\ n = 0 /\ group_by = "uuid" /\ data = << >> /\ hist = << >>
    /\ storage = Idle /\ inserted = << >>
    /\ heap = << >> /\ buckets = << >> /\ matchers = Idle
    /\ NoCache
    /\ op = [name |-> "init"]
    /\ ret = Returned(<< >>)
    /\ trace = << >>

\* Bucket(matcher=matcher)
BucketsNew ==
    /\ Len(buckets) < MaxBuckets
    /\ LET r == Bucket_init(heap, matcher, None, 3) IN
       /\ heap' = r.heap
       /\ buckets' = Append(buckets, r.bucket)
    /\ op' = [name |-> "Bucket"]
    /\ ret' = Returned(<< >>)
    /\ UNCHANGED <<topn_vars, bucket_vars, matchers, cache_vars, trace>>

\* buckets[b].put(record)
BucketsPut(b, record) ==
    /\ Len(inserted) < MaxRecords
    /\ LET ref == buckets[b].storage
           r == put(buckets[b].matcher, heap[ref], record)
       IN /\ heap' = [heap EXCEPT ![ref] = r.storage]
          /\ ret' = IF r.exc = "none" THEN Returned(<< >>) ELSE Raised(r.exc)
          /\ inserted' = IF r.exc = "none" THEN Append(inserted, <<b, record>>)
                         ELSE inserted
    /\ op' = [name |-> "put", bucket |-> b, record |-> record]
    /\ UNCHANGED <<topn_vars, matcher, storage, buckets, matchers, cache_vars, trace>>

\* len(buckets[b]._storage)
BucketsLen(b) ==
    /\ ret' = Returned(<< InMemoryStorage_len(heap[buckets[b].storage]) >>)
    /\ op' = [name |-> "len", bucket |-> b]
    /\ UNCHANGED <<topn_vars, bucket_vars, object_vars, cache_vars, trace>>

BucketsNext ==
    \/ BucketsNew
    \/ \E b \in 1..Len(buckets), record \in Records : BucketsPut(b, record)
    \/ \E b \in 1..Len(buckets) : BucketsLen(b)

BucketsSpec == BucketsInit /\ [][BucketsNext]_vars

----------------------------------------------------------------------------
(* Specification of several Matchers made with default arguments, whose    *)
(* rule lists are then changed in place.                                   *)

\* the items appended to a rule list
RuleItems(attr) ==
    CASE attr = "must"       -> { "letter" }
      [] attr = "either"     -> { "second" }
      [] attr = "sequential" -> { <<"name", "equal">>, <<"name", "not callable">> }
      [] attr = "should"     -> { [key |-> "name", similarity |-> "one", weight |-> 1] }

MatchersInit ==
    /\ n = 0 /\ group_by = "uuid" /\ data = << >> /\ hist = << >>
    /\ matcher = Idle /\ storage = Idle /\ inserted = << >>
    /\ heap = [o \in { DefaultArgs[a] : a \in MatcherAttrs } |-> << >>]
    /\ buckets = Idle
    /\ matchers = << >>
    /\ NoCache
    /\ op = [name |-> "init"]
    /\ ret = Returned(<< >>)
    /\ trace = << >>

\* Matcher()
MatchersNew ==
    /\ Len(matchers) < MaxMatchers
    /\ LET r == Matcher_init(heap) IN
       /\ heap' = r.heap
       /\ matchers' = IF r.exc = "none" THEN Append(matchers, r.matcher) ELSE matchers
       /\ ret' = IF r.exc = "none" THEN Returned(<< >>) ELSE Raised(r.exc)
    /\ op' = [name |-> "Matcher"]
    /\ UNCHANGED <<topn_vars, bucket_vars, buckets, cache_vars, trace>>

\* matchers[m].attr.append(item)
MatchersAppend(m, attr, item) ==
    /\ Len(heap[matchers[m][attr]]) < MaxItems
    /\ heap' = list_append(heap, matchers[m][attr], item)
    /\ op' = [name |-> "append", matcher |-> m, attr |-> attr, item |-> item]
    /\ ret' = Returned(<< >>)
    /\ UNCHANGED <<topn_vars, bucket_vars, buckets, matchers, cache_vars, trace>>

MatchersNext ==
    \/ MatchersNew
    \/ \E m \in 1..Len(matchers), attr \in MatcherAttrs :
          \E item \in RuleItems(attr) : MatchersAppend(m, attr, item)

MatchersSpec == MatchersInit /\ [][MatchersNext]_vars

----------------------------------------------------------------------------
(* Specification of a CachedStorage over a JSONLStorage *)

\* the number of values put so far
NPuts ==
    Cardinality({ <<key, i>> \in CacheKeys \X (1..(MaxCachePuts + 1)) :
                      i <= Len(expect[key]) /\ expect[key][i] # OldValue })

CacheInit ==
    /\ heap = Idle /\ buckets = Idle /\ matchers = Idle
    /\ n = 0 /\ group_by = "uuid" /\ data = << >> /\ hist = << >>
    /\ matcher = Idle /\ storage = Idle /\ inserted = << >>
    /\ cache_size \in 0..MaxCacheSize
    /\ \E old \in OldKeys :
          /\ disk = [f \in { DiskDict_get_file_path(key) : key \in old } |->
                        << json_dumps(OldValue) >>]
          /\ expect = [key \in CacheKeys |->
                          IF key \in old THEN << OldValue >> ELSE << >>]
    /\ cache = << >>
    /\ cache_dirty = {}
    /\ session = "new"
    /\ op = [name |-> "init"]
    /\ ret = Returned(<< >>)
    /\ trace = << >>

CacheGet(key) ==
    /\ LET r == CachedStorage_get(JSONLStorage(disk), cache, cache_dirty, cache_size,
                                  key) IN
       /\ cache' = r.cache
       /\ cache_dirty' = r.dirty
       /\ ret' = r.ret
       /\ trace' = r.trace
    /\ session' = IF session \in {"new", "fresh"} THEN "fresh" ELSE "mixed"
    /\ op' = [name |-> "get", key |-> key]
    /\ UNCHANGED <<object_vars, topn_vars, bucket_vars, disk, cache_size, expect>>

CachePut(key, value) ==
    /\ NPuts < MaxCachePuts
    /\ LET r == CachedStorage_put(JSONLStorage(disk), cache, cache_dirty, cache_size,
                                  key, value) IN
       /\ disk' = r.store.state
       /\ cache' = r.cache
       /\ cache_dirty' = r.dirty
       /\ ret' = r.ret
       /\ trace' = r.trace
    /\ expect' = [expect EXCEPT ![key] = Append(@, value)]
    /\ session' = IF session \in {"new", "puts"} THEN "puts" ELSE "mixed"
    /\ op' = [name |-> "put", key |-> key, value |-> value]
    /\ UNCHANGED <<object_vars, topn_vars, bucket_vars, cache_size>>

CacheClose(order) ==
    /\ LET r == CachedStorage_close(JSONLStorage(disk), cache, cache_dirty, order) IN
       /\ disk' = r.store.state
       /\ cache_dirty' = r.dirty
       /\ ret' = r.ret
       /\ trace' = r.trace
    /\ session' = IF session \in {"new", "puts"} THEN "closed" ELSE "mixed"
    /\ op' = [name |-> "close"]
    /\ UNCHANGED <<object_vars, topn_vars, bucket_vars, cache, cache_size, expect>>

\* CachedStorage(JSONLStorage(root_dir), cache_size) once more, on the same root_dir
CacheReopen ==
    /\ op.name = "close"
    /\ cache' = << >>
    /\ cache_dirty' = {}
    /\ session' = IF session = "closed" THEN "new" ELSE "mixed"
    /\ op' = [name |-> "init"]
    /\ ret' = Returned(<< >>)
    /\ trace' = << >>
    /\ UNCHANGED <<object_vars, topn_vars, bucket_vars, disk, cache_size, expect>>

\* len(storage) on the CachedStorage
CacheLen ==
    /\ ret' = CachedStorage_len
    /\ op' = [name |-> "len"]
    /\ UNCHANGED <<object_vars, topn_vars, bucket_vars, cache_vars, trace>>

CacheNext ==
    \/ \E key \in CacheKeys : CacheGet(key)
    \/ \E key \in CacheKeys : CachePut(key, PutValue(NPuts + 1))
    \/ \E order \in Orders(cache_dirty) : CacheClose(order)
    \/ CacheReopen
    \/ CacheLen

CacheSpec == CacheInit /\ [][CacheNext]_vars

----------------------------------------------------------------------------
(* Specification of a CachedStorage over a JSONLStorage one of whose files *)
(* cannot be parsed. The cache is large enough that nothing is evicted.    *)

\* a line that json.loads rejects
CorruptLine == [text |-> "not json"]

\* the key whose file is corrupt; no other key has a file at first
CorruptKey == Str("key1")

CorruptInit ==
    /\ heap = Idle /\ buckets = Idle /\ matchers = Idle
    /\ n = 0 /\ group_by = "uuid" /\ data = << >> /\ hist = << >>
    /\ matcher = Idle /\ storage = Idle /\ inserted = << >>
    /\ cache_size = MaxCacheSize
    /\ disk = [f \in { DiskDict_get_file_path(CorruptKey) } |-> << CorruptLine >>]
    /\ expect = [key \in CacheKeys |-> << >>]
    /\ cache = << >>
    /\ cache_dirty = {}
    /\ session = "new"
    /\ op = [name |-> "init"]
    /\ ret = Returned(<< >>)
    /\ trace = << >>

CorruptSpec == CorruptInit /\ [][CacheNext]_vars

----------------------------------------------------------------------------
(* Specification of a CachedStorage over a JSONLStorage in which every key *)
(* has a file, so that gets install clean entries and evictions happen.    *)
(* hist is the install history of the cache: one entry per key that was    *)
(* ever installed, in the order of each key's latest installation; used    *)
(* tells that the key had a cache hit (a get served from the cache or a    *)
(* put appended to its cached list) since it was installed.                *)

\* the history after a get or put of key took the cache from C1 to C2
Installs(h, C1, C2, key) ==
    LET hit == key \in CachedKeys(C1)
        installed == key \notin CachedKeys(C1) /\ key \in CachedKeys(C2)
        kept == SelectSeq(h, LAMBDA e : ~(installed /\ e.key = key))
        marked == [i \in 1..Len(kept) |->
                      IF hit /\ kept[i].key = key
                      THEN [kept[i] EXCEPT !.used = TRUE] ELSE kept[i]]
    IN IF installed THEN Append(marked, [key |-> key, used |-> FALSE]) ELSE marked

EvictInit ==
    /\ heap = Idle /\ buckets = Idle /\ matchers = Idle
    /\ n = 0 /\ group_by = "uuid" /\ data = << >> /\ hist = << >>
    /\ matcher = Idle /\ storage = Idle /\ inserted = << >>
    /\ cache_size \in 0..MaxCacheSize
    /\ disk = [f \in { DiskDict_get_file_path(key) : key \in CacheKeys } |->
                  << json_dumps(OldValue) >>]
    /\ expect = [key \in CacheKeys |-> << OldValue >>]
    /\ cache = << >>
    /\ cache_dirty = {}
    /\ session = "new"
    /\ op = [name |-> "init"]
    /\ ret = Returned(<< >>)
    /\ trace = << >>

EvictGet(key) ==
    /\ LET r == CachedStorage_get(JSONLStorage(disk), cache, cache_dirty, cache_size,
                                  key) IN
       /\ cache' = r.cache
       /\ cache_dirty' = r.dirty
       /\ ret' = r.ret
       /\ trace' = r.trace
       /\ hist' = Installs(hist, cache, r.cache, key)
    /\ op' = [name |-> "get", key |-> key]
    /\ UNCHANGED <<object_vars, n, group_by, data, bucket_vars, disk, cache_size, expect,
                   session>>

EvictPut(key, value) ==
    /\ NPuts < MaxCachePuts
    /\ LET r == CachedStorage_put(JSONLStorage(disk), cache, cache_dirty, cache_size,
                                  key, value) IN
       /\ disk' = r.store.state
       /\ cache' = r.cache
       /\ cache_dirty' = r.dirty
       /\ ret' = r.ret
       /\ trace' = r.trace
       /\ hist' = Installs(hist, cache, r.cache, key)
    /\ expect' = [expect EXCEPT ![key] = Append(@, value)]
    /\ op' = [name |-> "put", key |-> key, value |-> value]
    /\ UNCHANGED <<object_vars, n, group_by, data, bucket_vars, cache_size, session>>

EvictClose(order) ==
    /\ LET r == CachedStorage_close(JSONLStorage(disk), cache, cache_dirty, order) IN
       /\ disk' = r.store.state
       /\ cache_dirty' = r.dirty
       /\ ret' = r.ret
       /\ trace' = r.trace
    /\ op' = [name |-> "close"]
    /\ UNCHANGED <<object_vars, topn_vars, bucket_vars, cache, cache_size, expect, session>>

EvictNext ==
    \/ \E key \in CacheKeys : EvictGet(key)
    \/ \E key \in CacheKeys : EvictPut(key, PutValue(1))
    \/ \E order \in Orders(cache_dirty) : EvictClose(order)

EvictSpec == EvictInit /\ [][EvictNext]_vars

----------------------------------------------------------------------------
(* Specification of a CachedStorage over a JSONLStorage that gets puts and *)
(* gets only, next to a second JSONLStorage on a root_dir of its own with  *)
(* the same files at first, which gets the same puts directly. storage is  *)
(* the files of that uncached storage, hist the distinct keys the calls    *)
(* were made with, in the order of their first call.                       *)

\* the keys touched once key is
Touch(h, key) == IF \E i \in 1..Len(h) : h[i] = key THEN h ELSE Append(h, key)

ReadWriteInit ==
    /\ heap = Idle /\ buckets = Idle /\ matchers = Idle
    /\ n = 0 /\ group_by = "uuid" /\ data = << >> /\ hist = << >>
    /\ matcher = Idle /\ inserted = << >>
    /\ cache_size \in 0..(MaxCacheSize + 1)
    /\ \E old \in OldKeys :
          /\ disk = [f \in { DiskDict_get_file_path(key) : key \in old } |->
                        << json_dumps(OldValue) >>]
          /\ expect = [key \in CacheKeys |->
                          IF key \in old THEN << OldValue >> ELSE << >>]
    /\ storage = disk
    /\ cache = << >>
    /\ cache_dirty = {}
    /\ session = "new"
    /\ op = [name |-> "init"]
    /\ ret = Returned(<< >>)
    /\ trace = << >>

ReadWriteGet(key) ==
    /\ LET r == CachedStorage_get(JSONLStorage(disk), cache, cache_dirty, cache_size,
                                  key) IN
       /\ cache' = r.cache
       /\ cache_dirty' = r.dirty
       /\ ret' = r.ret
       /\ trace' = r.trace
    /\ hist' = Touch(hist, key)
    /\ op' = [name |-> "get", key |-> key]
    /\ UNCHANGED <<object_vars, n, group_by, data, bucket_vars, disk, cache_size, expect,
                   session>>

\* put(key, value) on the CachedStorage and on the uncached storage
ReadWritePut(key, value) ==
    /\ NPuts < MaxCachePuts
    /\ LET r == CachedStorage_put(JSONLStorage(disk), cache, cache_dirty, cache_size,
                                  key, value) IN
       /\ disk' = r.store.state
       /\ cache' = r.cache
       /\ cache_dirty' = r.dirty
       /\ ret' = r.ret
       /\ trace' = r.trace
    /\ storage' = JSONLStorage_put(storage, key, value).disk
    /\ expect' = [expect EXCEPT ![key] = Append(@, value)]
    /\ hist' = Touch(hist, key)
    /\ op' = [name |-> "put", key |-> key, value |-> value]
    /\ UNCHANGED <<object_vars, n, group_by, data, matcher, inserted, cache_size, session>>

ReadWriteNext ==
    \/ \E key \in CacheKeys : ReadWriteGet(key)
    \/ \E key \in CacheKeys : ReadWritePut(key, PutValue(NPuts + 1))

ReadWriteSpec == ReadWriteInit /\ [][ReadWriteNext]_vars

----------------------------------------------------------------------------
(* Specification of a CachedStorage over an InMemoryStorage: storage is    *)
(* the _data of the inner storage, which outlives the CachedStorage.       *)

MemCacheInit ==
    /\ heap = Idle /\ buckets = Idle /\ matchers = Idle
    /\ n = 0 /\ group_by = "uuid" /\ data = << >> /\ hist = << >>
    /\ matcher = Idle /\ inserted = << >>
    /\ disk = Idle
    /\ cache_size \in 0..MaxCacheSize
    /\ \E old \in OldKeys :
          /\ storage = [key \in old |-> << OldValue >>]
          /\ expect = [key \in CacheKeys |->
                          IF key \in old THEN << OldValue >> ELSE << >>]
    /\ cache = << >>
    /\ cache_dirty = {}
    /\ session = "new"
    /\ op = [name |-> "init"]
    /\ ret = Returned(<< >>)
    /\ trace = << >>

MemCacheGet(key) ==
    /\ LET r == CachedStorage_get(InMemoryStorage(storage), cache, cache_dirty,
                                  cache_size, key) IN
       /\ cache' = r.cache
       /\ cache_dirty' = r.dirty
       /\ ret' = r.ret
       /\ trace' = r.trace
    /\ session' = IF session \in {"new", "fresh"} THEN "fresh" ELSE "mixed"
    /\ op' = [name |-> "get", key |-> key]
    /\ UNCHANGED <<object_vars, topn_vars, matcher, storage, inserted, disk, cache_size, expect>>

MemCachePut(key, value) ==
    /\ NPuts < MaxCachePuts
    /\ LET r == CachedStorage_put(InMemoryStorage(storage), cache, cache_dirty,
                                  cache_size, key, value) IN
       /\ storage' = r.store.state
       /\ cache' = r.cache
       /\ cache_dirty' = r.dirty
       /\ ret' = r.ret
       /\ trace' = r.trace
    /\ expect' = [expect EXCEPT ![key] = Append(@, value)]
    /\ session' = IF session \in {"new", "puts"} THEN "puts" ELSE "mixed"
    /\ op' = [name |-> "put", key |-> key, value |-> value]
    /\ UNCHANGED <<object_vars, topn_vars, matcher, inserted, disk, cache_size>>

MemCacheClose(order) ==
    /\ LET r == CachedStorage_close(InMemoryStorage(storage), cache, cache_dirty,
                                    order) IN
       /\ storage' = r.store.state
       /\ cache_dirty' = r.dirty
       /\ ret' = r.ret
       /\ trace' = r.trace
    /\ session' = IF session \in {"new", "puts"} THEN "closed" ELSE "mixed"
    /\ op' = [name |-> "close"]
    /\ UNCHANGED <<object_vars, topn_vars, matcher, inserted, disk, cache, cache_size, expect>>

\* len(storage) on the CachedStorage
MemCacheLen ==
    /\ ret' = CachedStorage_len
    /\ op' = [name |-> "len"]
    /\ UNCHANGED <<object_vars, topn_vars, bucket_vars, cache_vars, trace>>

MemCacheNext ==
    \/ \E key \in CacheKeys : MemCacheGet(key)
    \/ \E key \in CacheKeys : MemCachePut(key, PutValue(NPuts + 1))
    \/ \E order \in Orders(cache_dirty) : MemCacheClose(order)
    \/ MemCacheLen

MemCacheSpec == MemCacheInit /\ [][MemCacheNext]_vars

----------------------------------------------------------------------------
(* Specification of a JSONLStorage driven directly. hist lists the writes   *)
(* made, expect[key] is what was written for key: the values its file held  *)
(* at first, then the values put to it, or the last put_all's values.       *)

\* the value lists given to put_all
PutAllValues == { << >>, << PutValue(2), PutValue(1), PutValue(2) >> }

JSONLInit ==
    /\ heap = Idle /\ buckets = Idle /\ matchers = Idle
    /\ n = 0 /\ group_by = "uuid" /\ data = << >> /\ hist = << >>
    /\ matcher = Idle /\ storage = Idle /\ inserted = << >>
    /\ cache = Idle /\ cache_dirty = {} /\ cache_size = 0 /\ session = "new"
    /\ \E old \in OldKeys :
          /\ disk = [f \in { DiskDict_get_file_path(key) : key \in old } |->
                        << json_dumps(OldValue) >>]
          /\ expect = [key \in CacheKeys |->
                          IF key \in old THEN << OldValue >> ELSE << >>]
    /\ op = [name |-> "init"]
    /\ ret = Returned(<< >>)
    /\ trace = << >>

JSONLPut(key, value) ==
    /\ Len(hist) < MaxWrites
    /\ LET r == JSONLStorage_put(disk, key, value) IN
       /\ disk' = r.disk
       /\ ret' = IF r.exc = "none" THEN Returned(<< >>) ELSE Raised(r.exc)
    /\ expect' = [expect EXCEPT ![key] = Append(@, value)]
    /\ hist' = Append(hist, <<"put", key>>)
    /\ op' = [name |-> "put", key |-> key, value |-> value]
    /\ UNCHANGED <<object_vars, n, group_by, data, bucket_vars, cache, cache_dirty, cache_size,
                   session, trace>>

JSONLPutAll(key, values) ==
    /\ Len(hist) < MaxWrites
    /\ disk' = JSONLStorage_put_all(disk, key, values)
    /\ ret' = Returned(<< >>)
    /\ expect' = [expect EXCEPT ![key] = values]
    /\ hist' = Append(hist, <<"put_all", key>>)
    /\ op' = [name |-> "put_all", key |-> key, values |-> values]
    /\ UNCHANGED <<object_vars, n, group_by, data, bucket_vars, cache, cache_dirty, cache_size,
                   session, trace>>

JSONLGet(key) ==
    /\ ret' = JSONLStorage_get(disk, key)
    /\ op' = [name |-> "get", key |-> key]
    /\ UNCHANGED <<object_vars, topn_vars, bucket_vars, cache_vars, trace>>

JSONLContains(key) ==
    /\ ret' = Returned(<< JSONLStorage_contains(disk, key) >>)
    /\ op' = [name |-> "contains", key |-> key]
    /\ UNCHANGED <<object_vars, topn_vars, bucket_vars, cache_vars, trace>>

JSONLLen ==
    /\ ret' = Returned(<< JSONLStorage_len(disk) >>)
    /\ op' = [name |-> "len"]
    /\ UNCHANGED <<object_vars, topn_vars, bucket_vars, cache_vars, trace>>

JSONLNext ==
    \/ \E key \in CacheKeys, i \in 1..2 : JSONLPut(key, PutValue(i))
    \/ \E key \in CacheKeys, values \in PutAllValues : JSONLPutAll(key, values)
    \/ \E key \in CacheKeys : JSONLGet(key)
    \/ \E key \in CacheKeys : JSONLContains(key)
    \/ JSONLLen

JSONLSpec == JSONLInit /\ [][JSONLNext]_vars

----------------------------------------------------------------------------
(* Specification of a TopN driven directly *)

TopNInit ==
    /\ heap = Idle /\ buckets = Idle /\ matchers = Idle
    /\ n \in 0..MaxN
    /\ group_by \in {"uuid", "first"}
    /\ data = << >>
    /\ hist = << >>
    /\ matcher = Idle /\ storage = Idle /\ inserted = << >>
    /\ NoCache
    /\ op = [name |-> "init"]
    /\ ret = Returned(<< >>)
    /\ trace = << >>

TopNPut(value, score) ==
    /\ Len(hist) < MaxPuts
    /\ LET r == TopN_put(data, n, TopN_group_by(group_by, data, value), value, score) IN
       /\ data' = r.data
       /\ ret' = IF r.exc = "none" THEN Returned(<< >>) ELSE Raised(r.exc)
    /\ hist' = Append(hist, <<value, score>>)
    /\ op' = [name |-> "put", value |-> value, score |-> score]
    /\ UNCHANGED <<object_vars, n, group_by, bucket_vars, cache_vars, trace>>

TopNGet ==
    /\ ret' = Returned(TopN_get(data))
    /\ op' = [name |-> "get"]
    /\ UNCHANGED <<object_vars, n, group_by, data, hist, bucket_vars, cache_vars, trace>>

TopNClear ==
    /\ data' = TopN_clear
    /\ hist' = << >>
    /\ op' = [name |-> "clear"]
    /\ ret' = Returned(<< >>)
    /\ UNCHANGED <<object_vars, n, group_by, bucket_vars, cache_vars, trace>>

TopNNext ==
    \/ \E value \in TopNValues, score \in TopNScores : TopNPut(value, score)
    \/ TopNGet
    \/ TopNClear

TopNSpec == TopNInit /\ [][TopNNext]_vars

----------------------------------------------------------------------------
(* Claims about TopN *)

HistValues == { hist[i][1] : i \in 1..Len(hist) }
PutsWithScore(s) == Cardinality({ i \in 1..Len(hist) : hist[i][2] = s })
PutsAbove(s) == Cardinality({ i \in 1..Len(hist) : hist[i][2] > s })
RetainedWithScore(s) == Cardinality({ i \in 1..Len(data) : data[i].score = s })
Min(a, b) == IF a < b THEN a ELSE b
Max(a, b) == IF a > b THEN a ELSE b

\* C2: no two retained entries of a TopN have structurally equal values,
\* whatever their group keys and whatever their scores.
C2_NoEqualValues ==
    \A i, j \in 1..Len(data) : i # j => data[i].value # data[j].value

\* C7: with the default group_by and pairwise distinct values, after k puts
\* since the last clear TopN holds exactly min(n, k) entries and their scores
\* are the min(n, k) highest scores put.
C7_TopScores ==
    (group_by = "uuid" /\ Cardinality(HistValues) = Len(hist)) =>
        /\ Len(data) = Min(n, Len(hist))
        /\ \A s \in TopNScores :
              RetainedWithScore(s) =
                  Max(0, Min(PutsWithScore(s), Min(n, Len(hist)) - PutsAbove(s)))

\* C7 witness: a full TopN has taken one more distinct value with a score
\* above its minimum and has dropped a minimum-scoring entry for it.
C7_Witness ==
    /\ group_by = "uuid" /\ n = 2 /\ Len(hist) = 3
    /\ Cardinality(HistValues) = 3
    /\ hist[3][2] > hist[1][2] /\ hist[2][2] > hist[1][2]
    /\ Len(data) = 2
    /\ op.name = "put"

GroupBest(g) ==
    CHOOSE s \in { hist[i][2] : i \in { k \in 1..Len(hist) : hist[k][1][1] = g } } :
        \A i \in 1..Len(hist) : hist[i][1][1] = g => hist[i][2] <= s

\* C8, state part: with group_by on the first character at most one entry
\* is retained per group key, it is filed under its own group, and it carries
\* the highest score put for that group since the last clear.
C8_OnePerGroup ==
    group_by = "first" =>
        /\ \A i, j \in 1..Len(data) : i # j => data[i].key # data[j].key
        /\ \A i \in 1..Len(data) :
              /\ data[i].key = data[i].value[1]
              /\ data[i].score = GroupBest(data[i].key)

\* C8, step part: a put whose group is already retained replaces that entry
\* only if its score is strictly greater; otherwise nothing changes.
C8_ReplaceStep ==
    (group_by = "first" /\ op'.name = "put" /\ hist' # hist
            /\ op'.value[1] \in Keys(data)) =>
        LET i == IndexOf(data, op'.value[1]) IN
        IF op'.score > data[i].score
        THEN data' = [data EXCEPT ![i] = [key |-> op'.value[1],
                                          value |-> op'.value,
                                          score |-> op'.score]]
        ELSE data' = data

\* C8: TopN with a group_by function keeps one entry per group, the best one.
C8_GroupedBest == [](C8_OnePerGroup) /\ [][C8_ReplaceStep]_vars

\* C8 witness: a retained group has been put again with a higher score and
\* again with a lower one, next to another retained group.
C8_Witness ==
    /\ group_by = "first" /\ Len(hist) = 3 /\ Len(data) = 2
    /\ \E i \in 1..Len(data) :
          /\ Cardinality({ k \in 1..Len(hist) : hist[k][1][1] = data[i].key }) = 2
          /\ \E k \in 1..Len(hist) :
                hist[k][1][1] = data[i].key /\ hist[k][2] < data[i].score

\* C18: with a capacity n >= 1 TopN never retains more than n entries, after
\* any sequence of put and clear calls, so that get, which is what
\* Bucket.find returns, gives at most n results.
C18_WithinCapacity ==
    n >= 1 =>
        /\ Len(data) <= n
        /\ (op.name \in {"get", "find"} /\ ret.exc = "none") => Len(ret.value) <= n

\* C18 witness: more candidates of distinct groups were put than the capacity,
\* the TopN is full and get returned n results.
C18_Witness ==
    /\ n >= 1 /\ group_by = "uuid"
    /\ Cardinality(HistValues) > n
    /\ Len(data) = n
    /\ op.name = "get" /\ Len(ret.value) = n

\* C26, one put: the TopN retains at least as many entries as before.
C26_PutStep == op'.name = "put" => Len(data') >= Len(data)

\* C26: TopN.put never decreases the number of retained entries: for every
\* state and every (value, score) the count after put is at least the count
\* before, so an eviction at capacity always installs the new candidate in
\* place of the evicted one.
C26_CountNeverDecreases == [][C26_PutStep]_vars

----------------------------------------------------------------------------
(* Claims about Bucket *)

InTrace(e) == \E i \in 1..Len(trace) : trace[i] = e

Range(seq) == { seq[i] : i \in 1..Len(seq) }

\* the last find scored a stored record above 0.9999
ScannedPerfect ==
    \E i \in 1..Len(trace) :
        /\ trace[i][1] = "components"
        /\ IsPerfect(components(matcher, storage[trace[i][2]][trace[i][3]],
                                analyzer(op.record)).score)

\* C1: whenever find scanned a stored record scoring above 0.9999 it returns
\* at most 1 element, for every capacity n >= 1 and wherever the perfect
\* match is stored.
C1_PerfectMatchAlone ==
    (op.name = "find" /\ ret.exc = "none" /\ n >= 1 /\ ScannedPerfect) =>
        Len(ret.value) <= 1

\* C6: find skips a blocking key absent from the storage and still fetches
\* and scans every later key (as long as no perfect match stops the scan).
C6_AbsentKeySkipped ==
    (op.name = "find" /\ ret.exc = "none" /\ ~ScannedPerfect) =>
        LET indexes == indexer(matcher, analyzer(op.record)).keys IN
        \A i \in 1..Len(indexes) :
            InMemoryStorage_contains(storage, indexes[i]) =>
                /\ InTrace(<<"get", indexes[i]>>)
                /\ \A j \in 1..Len(storage[indexes[i]]) :
                      InTrace(<<"components", indexes[i], j>>)

\* the blocking keys of a record: one conjunctive key when must is non-empty,
\* one key per either field when must is empty, the sentinel key otherwise
BlockingKeys(x) ==
    IF matcher.must # << >>
    THEN { [i \in 1..Len(matcher.must) |-> <<matcher.must[i], x[matcher.must[i]]>>] }
    ELSE IF matcher.either # << >>
    THEN { <<matcher.either[i], x[matcher.either[i]]>> : i \in 1..Len(matcher.either) }
    ELSE { None }

RECURSIVE RecordsUnder(_, _)
RecordsUnder(key, i) ==
    IF i = 0 THEN << >>
    ELSE IF key \in BlockingKeys(analyzer(inserted[i]))
    THEN Append(RecordsUnder(key, i - 1), analyzer(inserted[i]))
    ELSE RecordsUnder(key, i - 1)

\* C9: Bucket.put appends the analyzed record under every one of its blocking
\* keys; len(storage) is the number of distinct blocking keys over all inserted
\* records; nothing is deduplicated.
C9_StoredUnderEveryKey ==
    LET allKeys == UNION { BlockingKeys(analyzer(inserted[i])) : i \in 1..Len(inserted) } IN
    /\ DOMAIN storage = allKeys
    /\ InMemoryStorage_len(storage) = Cardinality(allKeys)
    /\ \A key \in allKeys : storage[key] = RecordsUnder(key, Len(inserted))

\* C9 witness: the same record was put twice under two either keys, and each
\* of its two keys holds it twice.
C9_Witness ==
    /\ matcher.must = << >> /\ Len(matcher.either) = 2
    /\ Len(inserted) = 2 /\ inserted[1] = inserted[2]
    /\ op.name = "put" /\ ret.exc = "none"
    /\ InMemoryStorage_len(storage) = 2
    /\ \A key \in DOMAIN storage : storage[key] = << inserted[1], inserted[1] >>

\* what find(record) returns on a Bucket of the same storage whose TopN is empty
FreshFind(record) == find(matcher, n, group_by, storage, TopN_clear, record)

\* C19: find holds no state across calls: whatever find calls were made
\* before, a find returns the set of (value, score) pairs, or raises the
\* exception, that the same call gives on a Bucket with the same storage
\* content that never ran a find (find leaves the storage as it is).
C19_FindHoldsNoState ==
    op.name = "find" =>
        LET fresh == FreshFind(op.record) IN
        /\ ret.exc = fresh.exc
        /\ ret.exc = "none" => Range(ret.value) = Range(TopN_get(fresh.data))

\* C19 witness: the TopN held two entries from the call before, and this find
\* on a non-empty storage returned nothing.
C19_Witness ==
    /\ op.name = "find" /\ ret = Returned(<< >>)
    /\ op.held = 2
    /\ inserted # << >>

\* the scan of every record of every present blocking key, in the order of the
\* keys and in storage order, from key i
RECURSIVE FullScan(_, _)
FullScan(indexes, i) ==
    IF i > Len(indexes) THEN << >>
    ELSE (IF InMemoryStorage_contains(storage, indexes[i])
          THEN [j \in 1..Len(storage[indexes[i]]) |-> <<"components", indexes[i], j>>]
          ELSE << >>) \o FullScan(indexes, i + 1)

\* the records the last find scored, in order
Scanned == SelectSeq(trace, LAMBDA e : e[1] = "components")

\* the trace position at which the last find scored a perfect match
PerfectAt(i) ==
    /\ trace[i][1] = "components"
    /\ IsPerfect(components(matcher, storage[trace[i][2]][trace[i][3]],
                            analyzer(op.record)).score)

\* C24: once a scanned candidate scores above 0.9999, find scores no further
\* record of the current key and looks up and fetches no further blocking
\* key; before that point every record of every present key is scored, in
\* storage order.
C24_EarlyExit ==
    (op.name = "find" /\ ret.exc = "none") =>
        LET full == FullScan(indexer(matcher, analyzer(op.record)).keys, 1) IN
        /\ \A i \in 1..Len(trace) : PerfectAt(i) => i = Len(trace)
        /\ Len(Scanned) <= Len(full)
        /\ Scanned = SubSeq(full, 1, Len(Scanned))
        /\ ~ScannedPerfect => Scanned = full

\* the Matcher score of a stored record against the analyzed query q
ScoreOf(record, q) == components(matcher, record, analyzer(q)).score

\* the distinct stored records that share a blocking key with the query q and
\* score above 0 against it, each with its score
Matching(q) ==
    { <<analyzer(inserted[i]), ScoreOf(analyzer(inserted[i]), q)>> : i \in
        { i \in 1..Len(inserted) :
            /\ BlockingKeys(analyzer(inserted[i])) \cap BlockingKeys(analyzer(q)) # {}
            /\ ScoreOf(analyzer(inserted[i]), q) > 0 } }

\* C28: with the default-derived indexer, a capacity n of at least the number
\* of stored records and no group_by, when no stored record scores above
\* 0.9999 against q, find(q) returns every distinct stored record that shares
\* a blocking key with q and scores above 0, each exactly once.
C28_FindComplete ==
    (/\ op.name = "find" /\ ret.exc = "none"
     /\ group_by = "uuid" /\ n >= Len(inserted)
     /\ \A i \in 1..Len(inserted) : ~IsPerfect(ScoreOf(analyzer(inserted[i]), op.record)))
    => /\ Range(ret.value) = Matching(op.record)
       /\ Len(ret.value) = Cardinality(Matching(op.record))

\* the stored records the last find scored, each with its score
Candidates ==
    { <<storage[trace[i][2]][trace[i][3]],
        ScoreOf(storage[trace[i][2]][trace[i][3]], op.record)>> :
        i \in { i \in 1..Len(trace) : trace[i][1] = "components" } }

\* C29: every (value, score) that find(q) returns is a record stored by a put
\* under one of q's blocking keys, with the Matcher score of that record
\* against the analyzed q, which is above 0; a record stored only under other
\* blocking keys is never returned; with capacity 1 the returned record has
\* the highest score among the scanned candidates.
C29_FindSound ==
    (op.name = "find" /\ ret.exc = "none") =>
        /\ \A i \in 1..Len(ret.value) :
              /\ \E j \in 1..Len(inserted) :
                    /\ analyzer(inserted[j]) = ret.value[i][1]
                    /\ BlockingKeys(analyzer(inserted[j]))
                           \cap BlockingKeys(analyzer(op.record)) # {}
              /\ ret.value[i][2] = ScoreOf(ret.value[i][1], op.record)
              /\ ret.value[i][2] > 0
        /\ n = 1 =>
              /\ Len(ret.value) <= 1
              /\ \A c \in Candidates : c[2] > 0 =>
                    /\ Len(ret.value) = 1
                    /\ ret.value[1][2] >= c[2]

\* C29 witness: a find of capacity 1 over two stored records scored a
\* candidate above 0 and returned another candidate, of a higher score.
C29_Witness ==
    /\ op.name = "find" /\ ret.exc = "none" /\ n = 1
    /\ Len(inserted) = 2
    /\ Len(ret.value) = 1
    /\ \E c \in Candidates : c[2] > 0 /\ c[2] < ret.value[1][2]

----------------------------------------------------------------------------
(* Claims about Matcher *)

Absent(field) == field \notin DOMAIN op.record1 \/ field \notin DOMAIN op.record2

MustFields == Range(matcher.must)
EitherFields == Range(matcher.either)
SequentialFields == { matcher.sequential[i][1] : i \in 1..Len(matcher.sequential) }
ShouldFields == { matcher.should[i].key : i \in 1..Len(matcher.should) }

\* every must, either and sequential check passes on the two records
GatesPass ==
    LET c == components([matcher EXCEPT !.should = << >>], op.record1, op.record2)
    IN c.exc = "none" /\ c.score = One

\* C10: if any rule in must, either, sequential or should references a field
\* absent from a or from b, components fails with a missing-field error
\* instead of returning a score.
C10_MissingFieldRaises ==
    (op.name = "components"
        /\ \E f \in MustFields \cup EitherFields \cup SequentialFields \cup ShouldFields :
              Absent(f))
    => ret.exc = "KeyError"

\* C10 as amended: if a rule in must, sequential or should references an
\* absent field, components never scores it with a default: it raises KeyError,
\* or returns (0.0, {}) because an earlier check already failed; it raises
\* whenever all gates pass and a should field is absent; and it raises only
\* when some referenced field is absent.
C10_NoDefaultForMissingField ==
    op.name = "components" =>
        /\ (\E f \in MustFields \cup SequentialFields \cup ShouldFields : Absent(f))
              => (ret.exc = "KeyError" \/ ret = Returned(<<0, << >> >>))
        /\ (GatesPass /\ \E f \in ShouldFields : Absent(f)) => ret.exc = "KeyError"
        /\ ret.exc = "KeyError"
              => \E f \in MustFields \cup EitherFields \cup SequentialFields
                          \cup ShouldFields : Absent(f)

\* C10 witness: a gate was called and passed, then a should rule read a field
\* one record lacks and the call raised.
C10_Witness ==
    /\ op.name = "components"
    /\ trace # << >>
    /\ \E f \in ShouldFields : Absent(f)
    /\ ret.exc = "KeyError"

\* no rule of the matcher reads a field one of the two records lacks
AllPresent ==
    \A f \in MustFields \cup EitherFields \cup SequentialFields \cup ShouldFields :
        ~Absent(f)

MustHolds == \A f \in MustFields : op.record1[f] = op.record2[f]

EitherHolds ==
    matcher.either = << >> \/ \E f \in EitherFields : op.record1[f] = op.record2[f]

GateHolds(i) ==
    Gate(matcher.sequential[i][2], op.record1[matcher.sequential[i][1]],
         op.record2[matcher.sequential[i][1]])

GateCalls(k) == [i \in 1..k |-> <<"sequential", i>>]

ShouldCalls == [i \in 1..Len(matcher.should) |-> <<"should", i>>]

\* C11: components checks must, then either, then the sequential gates in
\* listed order and returns (0.0, {}) at the first failing step, having called
\* the gates up to the failing one and no should similarity; when every gate
\* passes it calls every gate and then every should similarity exactly once.
C11_GatesInOrder ==
    (op.name = "components" /\ AllPresent) =>
        IF ~MustHolds \/ ~EitherHolds
        THEN ret = Returned(<<0, << >> >>) /\ trace = << >>
        ELSE IF \E i \in 1..Len(matcher.sequential) : ~GateHolds(i)
        THEN LET first == CHOOSE i \in 1..Len(matcher.sequential) :
                              ~GateHolds(i) /\ \A j \in 1..(i - 1) : GateHolds(j)
             IN ret = Returned(<<0, << >> >>) /\ trace = GateCalls(first)
        ELSE /\ ret.exc = "none"
             /\ trace = GateCalls(Len(matcher.sequential)) \o ShouldCalls

\* C11 witness: the first of two gates returned false; the second gate and
\* the should similarity were not called.
C11_Witness ==
    /\ op.name = "components" /\ AllPresent
    /\ Len(matcher.sequential) = 2 /\ matcher.should # << >>
    /\ ~GateHolds(1)
    /\ trace = << <<"sequential", 1>> >>
    /\ ret = Returned(<<0, << >> >>)

AllGatesHold == \A i \in 1..Len(matcher.sequential) : GateHolds(i)

\* a must mismatch scores (0.0, {}); no either field equal scores 0.0
C12_MustAndEitherFail ==
    /\ ~MustHolds => ret = Returned(<<0, << >> >>)
    /\ ~EitherHolds => (ret.exc = "none" /\ ret.value[1] = 0)

\* C12: a mismatch on any must field yields (0.0, {}) whatever the should
\* rules would score; when either is non-empty and no either field is equal
\* the score is 0.0; when at least one either field matches (and no must field
\* mismatches) and should is empty the score is 1.0.
C12_EitherMatchScoresOne ==
    (op.name = "components" /\ AllPresent) =>
        /\ C12_MustAndEitherFail
        /\ (MustHolds /\ matcher.either # << >> /\ EitherHolds
                /\ matcher.should = << >>)
           => (ret.exc = "none" /\ ret.value[1] = One)

\* C12 as amended: the same, the score being 1.0 only when every sequential
\* gate passes as well; a false gate makes it 0.0.
C12_EitherMatchAndGates ==
    (op.name = "components" /\ AllPresent) =>
        /\ C12_MustAndEitherFail
        /\ (MustHolds /\ matcher.either # << >> /\ EitherHolds
                /\ matcher.should = << >>)
           => /\ ret.exc = "none"
              /\ ret.value[1] = IF AllGatesHold THEN One ELSE 0

\* C12 witness: only the second of two either fields is equal, should is
\* empty and the score is 1.0.
C12_Witness ==
    /\ op.name = "components" /\ AllPresent
    /\ Len(matcher.either) = 2 /\ matcher.should = << >>
    /\ op.record1[matcher.either[1]] # op.record2[matcher.either[1]]
    /\ op.record1[matcher.either[2]] = op.record2[matcher.either[2]]
    /\ ret = Returned(<<One, << >> >>)

\* the similarity of should rule i on the two records, over SimDen
SimOf(i) ==
    Similarity(matcher.should[i].similarity, op.record1[matcher.should[i].key],
               op.record2[matcher.should[i].key])

\* the product over the should rules from rule i of
\* (stone_geary + (1 - stone_geary) * sim) ^ weight, as [num, den]
RECURSIVE ProductFrom(_)
ProductFrom(i) ==
    IF i > Len(matcher.should) THEN [num |-> 1, den |-> 1]
    ELSE LET rest == ProductFrom(i + 1)
             w == matcher.should[i].weight
             term == SimDen * matcher.stone_geary
                         + (SimDen - matcher.stone_geary) * SimOf(i)
         IN [num |-> Pow(term, w) * rest.num, den |-> Pow(TermDen, w) * rest.den]

\* C20: with all gates passing the score is the product over the should rules
\* of (stone_geary + (1 - stone_geary) * sim) ^ weight, the weights not being
\* normalised: exactly 1 when every similarity is 1 or should is empty,
\* exactly sim for one rule of weight 1 with stone_geary = 0, exactly
\* stone_geary for one rule of weight 1 with sim = 0.
C20_ScoreIsProduct ==
    (op.name = "components" /\ AllPresent /\ MustHolds /\ EitherHolds /\ AllGatesHold) =>
        LET score == ret.value[1]
            single == Len(matcher.should) = 1 /\ matcher.should[1].weight = 1
        IN /\ ret.exc = "none"
           /\ score * ProductFrom(1).den = ProductFrom(1).num * Den
           /\ (\A i \in 1..Len(matcher.should) : SimOf(i) = SimDen) => score = One
           /\ (single /\ matcher.stone_geary = 0) => score * SimDen = SimOf(1) * Den
           /\ (single /\ SimOf(1) = 0) => score * SimDen = matcher.stone_geary * Den

\* C20 witness: one rule of weight 2 with similarity 0.25 under stone_geary
\* 0.25 scored (0.25 + 0.75 * 0.25) ^ 2 = 49/256.
C20_Witness ==
    /\ op.name = "components" /\ AllPresent
    /\ Len(matcher.should) = 1 /\ matcher.should[1].weight = 2
    /\ matcher.stone_geary = 1 /\ SimOf(1) = 1
    /\ ret = Returned(<< 49, << <<"name", 0, 1>> >> >>)

----------------------------------------------------------------------------
(* Claims about CachedStorage *)

\* what a get on the inner storage returns for a key holding the list values
Holds(values) == [exc |-> "none", value |-> << values >>]

\* C3: when installing a new key triggers eviction and the earliest-inserted
\* cached key is dirty, that key's cached sequence is written to the inner
\* storage before it is dropped, the key leaves the dirty set, and the
\* triggering get or put completes normally.
C3_EvictionStep ==
    (/\ op'.name \in {"get", "put"}
     /\ op'.key \notin CachedKeys(cache)
     /\ op'.name = "get" => JSONLStorage_contains(disk, op'.key)
     /\ Len(cache) > cache_size
     /\ cache[1].key \in cache_dirty)
    => /\ ret'.exc = "none"
       /\ JSONLStorage_get(disk', cache[1].key) = Holds(cache[1].value)
       /\ cache[1].key \notin cache_dirty'
       /\ cache[1].key \notin CachedKeys(cache')

C3_EvictionFlushesDirty == [][C3_EvictionStep]_vars

\* C4, one close call that returns: every dirty key's file then holds exactly
\* the cached sequence, the keys that were not dirty are not written, the
\* dirty set is empty and the inner close was called last.
C4_CloseStep ==
    (op'.name = "close" /\ ret'.exc = "none") =>
        /\ \A key \in cache_dirty :
              JSONLStorage_get(disk', key) = Holds(CachedValue(cache, key))
        /\ \A key \in CacheKeys \ cache_dirty :
              /\ \A i \in 1..Len(trace') : trace'[i] # <<"put_all", key>>
              /\ JSONLStorage_get(disk', key) = JSONLStorage_get(disk, key)
        /\ cache_dirty' = {}
        /\ trace' # << >> /\ trace'[Len(trace')] = <<"close">>

\* C4: after CachedStorage.close returns, the inner storage holds the cache's
\* complete sequence for every key that was dirty (replaced, not appended),
\* other keys are untouched, the dirty set is empty and the inner storage is
\* closed.
C4_CloseFlushes == [][C4_CloseStep]_vars

\* C5: after any sequence of put calls and a close, a fresh CachedStorage on
\* the same root returns from get(k) the values stored before followed by all
\* values put to k, in order.
C5_RoundTrip ==
    (session = "fresh" /\ op.name = "get") =>
        ret = Returned(IF expect[op.key] = << >> THEN << >> ELSE << expect[op.key] >>)

\* the file of key cannot be parsed
Corrupt(F, key) == DiskDict_get(F, key).exc # "none"

\* the lines of the file of key, << >> when there is no file
FileOf(F, key) ==
    IF DiskDict_contains(F, key) THEN << F[DiskDict_get_file_path(key)] >> ELSE << >>

\* C21, one call while the file of k cannot be parsed: a get or put on another
\* key returns, a get with the values stored and put for that key; a get or
\* put on k leaves the files of the other keys as they are; a close returns
\* and has written the cached sequence of every other dirty key.
C21_Step ==
    \A k \in CacheKeys : Corrupt(disk, k) =>
        /\ (op'.name \in {"get", "put"} /\ op'.key # k) =>
              /\ ret'.exc = "none"
              /\ op'.name = "get" =>
                    ret'.value = IF expect[op'.key] = << >> THEN << >>
                                 ELSE << expect[op'.key] >>
        /\ (op'.name \in {"get", "put"} /\ op'.key = k) =>
              \A k2 \in CacheKeys \ {k} : FileOf(disk', k2) = FileOf(disk, k2)
        /\ op'.name = "close" =>
              /\ ret'.exc = "none"
              /\ \A k2 \in (cache_dirty \ {k}) \cap CachedKeys(cache) :
                    JSONLStorage_get(disk', k2) = Holds(CachedValue(cache, k2))

\* C21: a stored record of key k that cannot be parsed makes only the
\* operation touching k fail: get and put on every other key keep returning
\* correct data, no other key's file changes, and a later close of the
\* CachedStorage still flushes the other dirty keys.
C21_CorruptionIsScoped == [][C21_Step]_vars

\* the keys that left the cache in this step
Evicted == CachedKeys(cache) \ CachedKeys(cache')

\* the keys now cached, in the order of their installation
CachedHistory == SelectSeq(hist, LAMBDA e : e.key \in CachedKeys(cache))

\* C22, one get or put: at most one key is evicted, and it is the key
\* installed earliest among the keys cached when the call began.
C22_Step ==
    op'.name \in {"get", "put"} =>
        /\ Cardinality(Evicted) <= 1
        /\ \A key \in Evicted : key = CachedHistory[1].key

\* C22: eviction is FIFO by insertion into the cache: an evicted key is the
\* key installed earliest among those cached, whatever get hits and put
\* appends it or other keys had since; a key installed again after its
\* eviction counts as newly inserted.
C22_EvictionIsFIFO == [][C22_Step]_vars

\* C22 witness: of two cached keys the one installed first had a cache hit
\* since, and it was still the key evicted when a get installed a third key.
C22_Witness ==
    /\ op.name = "get" /\ ret.exc = "none"
    /\ Len(cache) = 2 /\ cache[2].key = op.key
    /\ Len(hist) = 3 /\ hist[3].key = op.key
    /\ hist[1].used /\ hist[1].key \notin CachedKeys(cache)
    /\ trace = << <<"get", op.key>>, <<"pop", hist[1].key>> >>

\* C23: the cache is bounded by its configured capacity: eviction is applied
\* before a new key is installed when the cache is at capacity, so after any
\* get or put returns the number of cached keys is at most cache_size.
C23_WithinCacheSize ==
    (op.name \in {"get", "put"} /\ ret.exc = "none") => Len(cache) <= cache_size

\* C27: in every reachable state, the states left behind by a get or put that
\* raised included, every key of the dirty set is in the cache, so that close
\* can flush every dirty key.
C27_DirtyKeysCached == cache_dirty \subseteq CachedKeys(cache)

\* C31: read-your-writes within capacity: as long as the calls were made with
\* no more distinct keys than cache_size, get(k) returns the sequence the
\* inner storage held for k followed by every value put to k, in put order,
\* which is what the uncached storage given the same puts returns; get of a
\* never-stored key returns the absent marker, and the key is then neither
\* cached nor dirty.
C31_ReadYourWrites ==
    (op.name = "get" /\ Len(hist) <= cache_size) =>
        /\ ret = Returned(IF expect[op.key] = << >> THEN << >> ELSE << expect[op.key] >>)
        /\ ret = JSONLStorage_get(storage, op.key)
        /\ expect[op.key] = << >> =>
              /\ op.key \notin CachedKeys(cache)
              /\ op.key \notin cache_dirty

----------------------------------------------------------------------------
(* Claims about JSONLStorage *)

\* key had no file at first and no put or put_all was made with it
NeverPut(key) ==
    /\ expect[key] = << >>
    /\ \A i \in 1..Len(hist) : hist[i][2] # key

\* C13: get(k) returns exactly the values written for k, in put order with
\* duplicates kept (the values of the last put_all, then the values put
\* since), and the absent marker for a key that was never put.
C13_GetReturnsPuts ==
    op.name = "get" =>
        ret = IF NeverPut(op.key) THEN Returned(<< >>) ELSE Holds(expect[op.key])

\* C14, one put or put_all with key k1: get(k2) and contains(k2) are unchanged
\* for every other key k2.
C14_WriteStep ==
    op'.name \in {"put", "put_all"} =>
        \A k2 \in CacheKeys \ {op'.key} :
            /\ JSONLStorage_get(disk', k2) = JSONLStorage_get(disk, k2)
            /\ JSONLStorage_contains(disk', k2) = JSONLStorage_contains(disk, k2)

\* C14: for any two distinct keys k1 # k2, put(k1, v) leaves get(k2) and
\* contains(k2) unchanged.
C14_KeyIsolation == [][C14_WriteStep]_vars

----------------------------------------------------------------------------
(* Claims about CachedStorage over an InMemoryStorage *)

\* C15: for CachedStorage(InMemoryStorage()), after put(k, v) calls and
\* close(), close completed without error and the inner storage's get(k)
\* contains every v put to k.
C15_ComposableOverInMemory ==
    (op.name = "close" /\ session = "closed") =>
        /\ ret.exc = "none"
        /\ \A key \in CacheKeys : \A i \in 1..Len(expect[key]) :
              /\ InMemoryStorage_contains(storage, key)
              /\ \E j \in 1..Len(storage[key]) : storage[key][j] = expect[key][i]

----------------------------------------------------------------------------
(* Claims about len() *)

\* C16: len() of a CachedStorage returns the count of distinct keys it holds,
\* in its cache or in the inner storage.
C16_LenCountsKeys ==
    op.name = "len" =>
        /\ ret.exc = "none"
        /\ ret.value = << Cardinality({ key \in CacheKeys :
                              CachedStorage_contains(JSONLStorage(disk), cache, key) }) >>

----------------------------------------------------------------------------
(* Claims about several Matchers *)

\* the rule sequence that attribute attr of Matcher m shows on the heap H
RulesOf(H, m, attr) == H[matchers[m][attr]]

\* C25, one call: an append to a rule list of one Matcher leaves every rule
\* sequence of every other Matcher as it was, and a Matcher constructed with
\* defaults is constructed and has empty rule sequences.
C25_Step ==
    /\ op'.name = "append" =>
          \A m \in 1..Len(matchers) : m # op'.matcher =>
              \A attr \in MatcherAttrs : RulesOf(heap', m, attr) = RulesOf(heap, m, attr)
    /\ op'.name = "Matcher" =>
          /\ ret'.exc = "none"
          /\ \A attr \in MatcherAttrs :
                heap'[matchers'[Len(matchers')][attr]] = << >>

\* C25: two Matchers constructed with default arguments share no mutable rule
\* sequence: a change to the must, either, sequential or should sequence of
\* one is never visible through another, nor through a Matcher constructed
\* later with defaults.
C25_NoSharedDefaults == [][C25_Step]_vars

----------------------------------------------------------------------------
(* Claims about several Buckets *)

\* the _data of the storage of Bucket b
StorageOf(H, b) == H[buckets[b].storage]

\* C17, one put on a Bucket: the storage of every other Bucket keeps its len
\* and every key's sequence.
C17_PutStep ==
    op'.name = "put" =>
        \A b \in 1..Len(buckets) : b # op'.bucket =>
            /\ InMemoryStorage_len(StorageOf(heap', b)) = InMemoryStorage_len(StorageOf(heap, b))
            /\ StorageOf(heap', b) = StorageOf(heap, b)

\* C17: two Buckets constructed without an explicit storage own independent
\* storages: a put on one leaves the other's storage unchanged.
C17_IndependentStorages == [][C17_PutStep]_vars

\* C17 witness: of two Buckets the first was put two records, and the storage
\* of the second is empty.
C17_Witness ==
    /\ Len(buckets) = 2
    /\ op.name = "put" /\ op.bucket = 1 /\ ret.exc = "none"
    /\ Len(inserted) = 2
    /\ InMemoryStorage_len(StorageOf(heap, 1)) > 0
    /\ InMemoryStorage_len(StorageOf(heap, 2)) = 0

\* C30, one put that raises: the storage of every Bucket, that of the Bucket
\* put to included, keeps its keys and every key's sequence.
C30_PutStep ==
    (op'.name = "put" /\ ret'.exc # "none") =>
        \A b \in 1..Len(buckets) : StorageOf(heap', b) = StorageOf(heap, b)

\* C30: Bucket.put is all-or-nothing with respect to indexing errors: when
\* put(record) raises because the default-derived indexer reads a field the
\* record lacks, no key of the storage is created or changed.
C30_PutAllOrNothing == [][C30_PutStep]_vars

\* C30 witness: a put of a record without 'second' on a Bucket indexing by the
\* either fields letter and second raised KeyError, and the storage of that
\* Bucket, which held nothing, still holds nothing under the record's letter.
C30_Witness ==
    /\ op.name = "put" /\ ret.exc = "KeyError"
    /\ buckets[op.bucket].matcher.either = <<"letter", "second">>
    /\ "second" \notin DOMAIN op.record
    /\ ~InMemoryStorage_contains(StorageOf(heap, op.bucket),
                                 <<"letter", op.record.letter>>)
    /\ InMemoryStorage_len(StorageOf(heap, op.bucket)) = 0

====
